---------------------------- MODULE Spec2Model ----------------------------
(***************************************************************************)
(* A model of the Excel batch processor: excel.py (find_target_row,        *)
(* create_headers, clean_data, process_sheet, process_file, unify_columns, *)
(* calculate_completeness_stats, process_excel_files) and main.py          *)
(* (ExcelProcessor.find_id_column_row, merge_all_data).                    *)
(*                                                                         *)
(* A Python str is a sequence of characters; a character is a one-element  *)
(* token such as "A" or "_".  The Chinese characters of the source are     *)
(* written in pinyin: "wen","jian","ming2" is the file-name column,        *)
(* "shen","fen","zheng","hao" is the marker.  Code gives each character    *)
(* its Unicode code point, which is what Python's sorted() compares.       *)
(* A cell is null (NaN), a text or a number; a DataFrame is a record of    *)
(* its column labels, its row labels (index) and its rows.                 *)
(***************************************************************************)
EXTENDS Integers, Sequences, FiniteSets, TLC

VARIABLES
    pc,            \* the step the run is at
    df,            \* find_target_row / find_id_column_row: the raw grid
    target,        \* find_target_row: the target string
    target_row,    \* find_target_row's result
    id_row_idx,    \* find_id_column_row's result
    row_data,      \* create_headers: the marker row
    headers,       \* create_headers' result
    data,          \* clean_data: the region handed to it
    cleaned,       \* clean_data(data)
    cleaned2,      \* clean_data(clean_data(data))
    all_dataframes,     \* process_excel_files: the tagged tables, in order
    final_df,           \* process_excel_files: the merged table
    completeness_stats, \* calculate_completeness_stats(final_df)
    column_sources,     \* collect_column_sources(all_dataframes)
    error,              \* the exception process_excel_files raised, or ""
    summary,            \* create_summary(result)['completeness']
    all_data,           \* ExcelProcessor.all_data: the tagged tables, in order
    merged_df,          \* merge_all_data's result
    main_error,         \* the exception ExcelProcessor.save_results raised, or ""
    excel_files,        \* process_excel_files: the workbooks found, in order
    file_idx,           \* process_excel_files: the workbooks its loop has done
    processing_stats,   \* process_excel_files: its counters
    written,            \* save_excel: the table in the output file, if any
    save_excel_returned,     \* save_excel: what it returned to its caller
    target_folders,     \* process_folders: the folders found, in order
    folder_idx,         \* process_folders: the folders its loop has done
    processing_summary, \* ExcelProcessor.processing_summary
    processing_details, \* ExcelProcessor.processing_details
    process_folders_returned,    \* process_folders: what it returned
    save_results_returned,       \* save_results: what it returned
    written_main        \* save_results: the table in the output file, if any

vars == <<pc, df, target, target_row, id_row_idx, row_data, headers,
          data, cleaned, cleaned2, all_dataframes, final_df, column_sources,
          completeness_stats, error, summary, all_data, merged_df, main_error,
          excel_files, file_idx, processing_stats, written,
          save_excel_returned, target_folders, folder_idx, processing_summary,
          processing_details, process_folders_returned, save_results_returned,
          written_main>>

locatorVars == <<df, target, target_row, id_row_idx>>
headerVars == <<row_data, headers>>
cleanerVars == <<data, cleaned, cleaned2>>
excelVars == <<all_dataframes, final_df, completeness_stats, error, summary,
               column_sources>>
mainRunVars == <<target_folders, folder_idx, processing_summary,
                 processing_details, process_folders_returned>>
mainSaveVars == <<save_results_returned, written_main>>
mainVars == <<all_data, merged_df, main_error, mainRunVars, mainSaveVars>>
saveVars == <<written, save_excel_returned>>
runVars == <<excel_files, file_idx, processing_stats>>

(***************************************************************************)
(* Bounds of the model.                                                    *)
(***************************************************************************)
MaxGridRows == 12     \* rows of a grid handed to the marker search
MaxSpecialRows == 2   \* rows of such a grid that are not filler rows
MaxHeaderCells == 4   \* cells of a row handed to create_headers
MaxRegionCells == 6   \* cells (rows times columns) of a region handed to clean_data
MaxTables == 2        \* tagged tables handed to the merge
MaxTableRows == 3     \* rows of such a table
MaxFiles == 2         \* workbooks of a run
MaxSheets == 3        \* worksheets of a run, all workbooks together
MaxFolders == 2       \* folders of a run of main.py

(***************************************************************************)
(* Values.                                                                 *)
(***************************************************************************)
Min(a, b) == IF a <= b THEN a ELSE b

NULL == [k |-> "null", s |-> <<>>]
Text(s) == [k |-> "text", s |-> s]
Num(n) == [k |-> "num", s |-> <<ToString(n)>>]

\* pd.notna(val)
notna(val) == val.k # "null"

\* str(val); astype(str) turns a missing value into the text 'nan'
str(val) == IF notna(val) THEN val.s ELSE <<"n", "a", "n">>

\* Optional[int]: None
None == -1

\* sub in s, for Python strings
Contains(s, sub) ==
    \E i \in 0..(Len(s) - Len(sub)) : \A j \in 1..Len(sub) : s[i + j] = sub[j]

\* re.search(pat, s) for a pattern over letters and '.', which matches any
\* character
ReSearch(pat, s) ==
    \E i \in 0..(Len(s) - Len(pat)) :
        \A j \in 1..Len(pat) : pat[j] = "." \/ s[i + j] = pat[j]

(***************************************************************************)
(* MarkerLocator.                                                          *)
(***************************************************************************)
\* the default of find_target_row's target and the literal of
\* find_id_column_row
DefaultTarget == <<"shen", "fen", "zheng", "hao">>

\* df.iloc[i].astype(str).str.contains(target, na=False).any(): contains
\* takes target as a regular expression (regex=True is its default), and
\* after astype(str) no cell is missing
RowContains(row, tgt) ==
    \E j \in 1..Len(row) : ReSearch(tgt, str(row[j]))

SearchAllRows(grid) == Len(grid)

SearchRows(grid) == Min(10, Len(grid))

RECURSIVE ScanRows(_, _, _, _)
ScanRows(grid, tgt, i, n) ==
    IF i >= n THEN None
    ELSE IF RowContains(grid[i + 1], tgt) THEN i
    ELSE ScanRows(grid, tgt, i + 1, n)

find_target_row(grid, tgt) == ScanRows(grid, tgt, 0, SearchRows(grid))

\* main.py: pd.notna(cell_value) and '身份证号' in str(cell_value)
CellHasId(cell_value) == notna(cell_value) /\ Contains(str(cell_value), DefaultTarget)

RECURSIVE ScanIdRows(_, _, _)
ScanIdRows(grid, row_idx, search_rows) ==
    IF row_idx >= search_rows THEN None
    ELSE IF \E j \in 1..Len(grid[row_idx + 1]) : CellHasId(grid[row_idx + 1][j])
         THEN row_idx
    ELSE ScanIdRows(grid, row_idx + 1, search_rows)

find_id_column_row(grid) == ScanIdRows(grid, 0, Min(10, Len(grid)))

(***************************************************************************)
(* HeaderBuilder.                                                          *)
(***************************************************************************)
\* f"未命名_{i}"
Unnamed(i) == <<"wei", "ming4", "ming2", "_", ToString(i)>>

\* f"{original}_{counter}"
Suffixed(original, counter) == original \o <<"_", ToString(counter)>>

InHeaders(name, hs) == \E j \in 1..Len(hs) : hs[j] = name

FirstCounterZero == 1 - 1

FirstCounter == 1

\* an if in place of the while
RenameOnce(name, original, counter, hs) ==
    IF InHeaders(name, hs) THEN Suffixed(original, counter) ELSE name

\* while name in headers: name = f"{original}_{counter}"; counter += 1
RECURSIVE Rename(_, _, _, _)
Rename(name, original, counter, hs) ==
    IF InHeaders(name, hs)
    THEN Rename(Suffixed(original, counter), original, counter + 1, hs)
    ELSE name

\* name = str(val) if pd.notna(val) else f"未命名_{i}"
HeaderCandidate(val, i) == IF notna(val) THEN str(val) ELSE Unnamed(i)

RECURSIVE BuildHeaders(_, _, _)
BuildHeaders(row, i, hs) ==
    IF i >= Len(row) THEN hs
    ELSE LET name == HeaderCandidate(row[i + 1], i)
         IN BuildHeaders(row, i + 1,
                         Append(hs, Rename(name, name, FirstCounter, hs)))

create_headers(row) == BuildHeaders(row, 0, <<>>)

(***************************************************************************)
(* DataFrames.                                                             *)
(***************************************************************************)
DataFrame(columns, index, rows) ==
    [columns |-> columns, index |-> index, rows |-> rows]

EmptyFrame == DataFrame(<<>>, <<>>, <<>>)

NRows(t) == Len(t.rows)

NCols(t) == Len(t.columns)

\* DataFrame.empty
empty(t) == NRows(t) = 0 \/ NCols(t) = 0

\* the elements of seq at the positions in P, in order
RECURSIVE PickFrom(_, _, _)
PickFrom(seq, P, i) ==
    IF i > Len(seq) THEN <<>>
    ELSE (IF i \in P THEN <<seq[i]>> ELSE <<>>) \o PickFrom(seq, P, i + 1)

Pick(seq, P) == PickFrom(seq, P, 1)

\* the rows at the positions in P, with their labels
TakeRows(t, P) == DataFrame(t.columns, Pick(t.index, P), Pick(t.rows, P))

\* the columns at the positions in P
TakeCols(t, P) ==
    DataFrame(Pick(t.columns, P), t.index,
              [r \in 1..NRows(t) |-> Pick(t.rows[r], P)])

\* the position of label c among the columns of t, 0 if it is none of them
ColPos(t, c) ==
    IF \E j \in 1..NCols(t) : t.columns[j] = c
    THEN CHOOSE j \in 1..NCols(t) : t.columns[j] = c
    ELSE 0

\* str.strip(): the text without its leading and trailing blanks
strip(s) ==
    LET solid == { i \in 1..Len(s) : s[i] # " " }
    IN IF solid = {} THEN <<>>
       ELSE SubSeq(s, CHOOSE i \in solid : \A j \in solid : i <= j,
                      CHOOSE i \in solid : \A j \in solid : i >= j)

(***************************************************************************)
(* RegionCleaner.                                                          *)
(***************************************************************************)
\* x.astype(str).str.strip().eq('')
IsBlank(val) == strip(str(val)) = <<>>

\* .dropna(how='all'): the rows with a non-null cell
dropna_rows(t) ==
    TakeRows(t, { r \in 1..NRows(t) :
                    \E j \in 1..NCols(t) : notna(t.rows[r][j]) })

\* .dropna(axis=1, how='all'): the columns with a non-null cell
dropna_cols(t) ==
    TakeCols(t, { j \in 1..NCols(t) :
                    \E r \in 1..NRows(t) : notna(t.rows[r][j]) })

\* df.apply(lambda x: x.astype(str).str.strip().eq('').all()): per column
\* label of df, whether every cell of the column is blank
BlankColumns(t) ==
    { t.columns[j] : j \in { i \in 1..NCols(t) :
                               \A r \in 1..NRows(t) : IsBlank(t.rows[r][i]) } }

\* .loc[:, ~mask]: the columns of t whose label is not in the mask
loc_not(t, mask) ==
    TakeCols(t, { j \in 1..NCols(t) : t.columns[j] \notin mask })

\* x[~x.apply(lambda row: ...all(), axis=1)]: the rows with a cell that is
\* not blank; a frame with no row comes back with no column either (the
\* empty mask is no boolean mask and selects columns, none)
drop_blank_rows(x) ==
    IF NRows(x) = 0 THEN DataFrame(<<>>, x.index, <<>>)
    ELSE TakeRows(x, { r \in 1..NRows(x) :
                         \E j \in 1..NCols(x) : ~IsBlank(x.rows[r][j]) })

\* .reset_index(drop=True)
reset_index(t) ==
    DataFrame(t.columns, [r \in 1..NRows(t) |-> r - 1], t.rows)

\* the mask of the blank columns is taken from the argument df, not from
\* the frame the two dropna calls left
clean_data(t) ==
    reset_index(drop_blank_rows(
        loc_not(dropna_cols(dropna_rows(t)), BlankColumns(t))))

\* main.py clean_dataframe: the two dropna calls and reset_index
clean_dataframe(t) == reset_index(dropna_cols(dropna_rows(t)))

(***************************************************************************)
(* Column labels and their order.                                          *)
(***************************************************************************)
\* ord(ch)
Code(ch) ==
    CASE ch = " " -> 32 [] ch = "." -> 46 [] ch = "=" -> 61
      [] ch = "0" -> 48 [] ch = "1" -> 49 [] ch = "2" -> 50 [] ch = "3" -> 51
      [] ch = "4" -> 52 [] ch = "5" -> 53 [] ch = "6" -> 54 [] ch = "7" -> 55
      [] ch = "8" -> 56 [] ch = "9" -> 57
      [] ch = "A" -> 65 [] ch = "B" -> 66 [] ch = "C" -> 67 [] ch = "D" -> 68
      [] ch = "_" -> 95 [] ch = "a" -> 97 [] ch = "b" -> 98 [] ch = "n" -> 110
      [] ch = "x" -> 120
      [] ch = "lie" -> 21015
      [] ch = "jian" -> 20214 [] ch = "fen" -> 20221 [] ch = "zuo" -> 20316
      [] ch = "hao" -> 21495 [] ch = "ming2" -> 21517 [] ch = "ming4" -> 21629
      [] ch = "jia" -> 22841 [] ch = "xing" -> 22995 [] ch = "gong" -> 24037
      [] ch = "wen" -> 25991 [] ch = "wei" -> 26410 [] ch = "biao" -> 34920
      [] ch = "zheng" -> 35777 [] ch = "shen" -> 36523

\* a < b for Python strings: by code point, a proper prefix first
StrLess(a, b) ==
    \E i \in 1..Len(b) :
        /\ i <= Len(a) + 1
        /\ \A j \in 1..(i - 1) : a[j] = b[j]
        /\ (i = Len(a) + 1 \/ Code(a[i]) < Code(b[i]))

\* sorted(S) for a set of strings
RECURSIVE sorted(_)
sorted(S) ==
    IF S = {} THEN <<>>
    ELSE LET m == CHOOSE x \in S : \A y \in S : x = y \/ StrLess(x, y)
         IN <<m>> \o sorted(S \ {m})

Range(seq) == { seq[i] : i \in 1..Len(seq) }

\* '文件名', '工作表名', '文件夹名'
FileCol == <<"wen", "jian", "ming2">>
SheetCol == <<"gong", "zuo", "biao", "ming2">>
FolderCol == <<"wen", "jian", "jia", "ming2">>

\* ['文件名', '工作表名'], the labels excel.py takes for provenance
ExcelProvenance == <<FileCol, SheetCol>>

(***************************************************************************)
(* Tagging a cleaned region with its provenance.                           *)
(***************************************************************************)
\* the value in the first row only
SetColumnFirstRow(t, name, value) ==
    IF name \in Range(t.columns)
    THEN DataFrame(t.columns, t.index,
             [r \in 1..NRows(t) |->
                 [j \in 1..NCols(t) |->
                     IF t.columns[j] = name /\ r = 1 THEN value ELSE t.rows[r][j]]])
    ELSE DataFrame(Append(t.columns, name), t.index,
             [r \in 1..NRows(t) |->
                 Append(t.rows[r], IF r = 1 THEN value ELSE NULL)])

\* df[name] = value and .assign(name=value): an existing column of that
\* label is overwritten where it stands, a new one is added last
SetColumn(t, name, value) ==
    IF name \in Range(t.columns)
    THEN DataFrame(t.columns, t.index,
             [r \in 1..NRows(t) |->
                 [j \in 1..NCols(t) |->
                     IF t.columns[j] = name THEN value ELSE t.rows[r][j]]])
    ELSE DataFrame(Append(t.columns, name), t.index,
             [r \in 1..NRows(t) |-> Append(t.rows[r], value)])

\* .assign(文件名=file_path.name, 工作表名=sheet_name)
assign(t, file_name, sheet_name) ==
    SetColumn(SetColumn(t, FileCol, Text(file_name)), SheetCol, Text(sheet_name))

\* main.py: data_df['文件名'], data_df['工作表名'], data_df['文件夹名']
TagMain(t, file_name, sheet_name, folder_name) ==
    SetColumn(SetColumn(SetColumn(t, FileCol, Text(file_name)),
                        SheetCol, Text(sheet_name)),
              FolderCol, Text(folder_name))

(***************************************************************************)
(* SchemaUnifier.                                                          *)
(***************************************************************************)
HasDuplicateLabels(t) ==
    \E i, j \in 1..NCols(t) : i # j /\ t.columns[i] = t.columns[j]

\* a reindex that takes the columns by position
ReindexByPosition(t, cols) ==
    DataFrame(cols, t.index,
        [r \in 1..NRows(t) |->
            [j \in 1..Len(cols) |->
                IF j <= NCols(t) THEN t.rows[r][j] ELSE NULL]])

\* df.reindex(columns=cols): a column of df under its label, a column of
\* nulls under a label df has not (it raises when df repeats a label)
reindex(t, cols) ==
    LET pos == [j \in 1..Len(cols) |-> ColPos(t, cols[j])]
    IN DataFrame(cols, t.index,
           [r \in 1..NRows(t) |->
               [j \in 1..Len(cols) |->
                   IF pos[j] # 0 THEN t.rows[r][pos[j]] ELSE NULL]])

\* the labels every table has, in place of the labels any table has
CommonDataColumns(dataframes) ==
    { col \in UNION { Range(dataframes[k].columns) : k \in 1..Len(dataframes) } :
        /\ col \notin Range(ExcelProvenance)
        /\ \A k \in 1..Len(dataframes) : col \in Range(dataframes[k].columns) }

\* all_columns: the union of the labels that are not '文件名', '工作表名'
AllDataColumns(dataframes) ==
    UNION { Range(dataframes[k].columns) : k \in 1..Len(dataframes) }
        \ Range(ExcelProvenance)

\* unified_columns = sorted(all_columns) + ['文件名', '工作表名']
unified_columns(dataframes) == sorted(AllDataColumns(dataframes)) \o ExcelProvenance

unify_columns(dataframes) ==
    LET cols == unified_columns(dataframes)
    IN [k \in 1..Len(dataframes) |-> reindex(dataframes[k], cols)]

\* the rows of the frames with a row that comes again left out
RECURSIVE Distinct(_)
Distinct(rows) ==
    IF rows = <<>> THEN <<>>
    ELSE LET rest == Distinct(Tail(rows))
         IN IF Head(rows) \in Range(rest) THEN rest ELSE <<Head(rows)>> \o rest

RECURSIVE RowsOfAll(_, _)
RowsOfAll(frames, k) ==
    IF k > Len(frames) THEN <<>>
    ELSE frames[k].rows \o RowsOfAll(frames, k + 1)

ConcatDistinctRows(frames, k) == Distinct(RowsOfAll(frames, k))

\* pd.concat(frames, ignore_index=True) of frames of the same columns
RECURSIVE ConcatRows(_, _)
ConcatRows(frames, k) ==
    IF k > Len(frames) THEN <<>>
    ELSE frames[k].rows \o ConcatRows(frames, k + 1)

concat(frames) ==
    LET rows == ConcatRows(frames, 1)
    IN DataFrame(frames[1].columns, [r \in 1..Len(rows) |-> r - 1], rows)

\* main.py merge_all_data: every label, the provenance labels among them,
\* in sorted order
all_columns_main(tables) ==
    sorted(UNION { Range(tables[k].columns) : k \in 1..Len(tables) })

merge_all_data(tables) ==
    LET all_columns == all_columns_main(tables)
    IN concat([k \in 1..Len(tables) |-> reindex(tables[k], all_columns)])

(***************************************************************************)
(* ProvenanceAggregator: column sources.                                   *)
(***************************************************************************)
\* the first table only
FirstTableOnly(dataframes) == { k \in 1..Len(dataframes) : k = 1 }

\* the tables that are not empty
FilledTables(dataframes) ==
    { k \in 1..Len(dataframes) : ~empty(dataframes[k]) }

\* collect_column_sources: for each data label of a table that is not
\* empty, the (文件名, 工作表名) values of the first row of each such table
collect_column_sources(dataframes) ==
    LET filled == FilledTables(dataframes)
        data_columns(k) == { c \in Range(dataframes[k].columns) :
                                c \notin Range(ExcelProvenance) }
    IN [col \in UNION { data_columns(k) : k \in filled } |->
           { <<dataframes[k].rows[1][ColPos(dataframes[k], FileCol)],
               dataframes[k].rows[1][ColPos(dataframes[k], SheetCol)]>> :
                k \in { i \in filled : col \in data_columns(i) } }]

(***************************************************************************)
(* ProvenanceAggregator: completeness.                                     *)
(***************************************************************************)
\* a count of the cells that are not blank
NonBlankCount(t, col) ==
    Cardinality({ r \in 1..NRows(t) : ~IsBlank(t.rows[r][ColPos(t, col)]) })

\* df[col].notna().sum()
NonNullCount(t, col) ==
    Cardinality({ r \in 1..NRows(t) : notna(t.rows[r][ColPos(t, col)]) })

\* (non_null_count / len(df)) * 100, kept as the exact fraction num / den;
\* den = 0 is the division by len(df) = 0, whose result is numpy's nan
CompletenessEntry(t, col) ==
    LET non_null_count == NonNullCount(t, col)
    IN [column |-> col,
        non_null_count |-> non_null_count,
        completeness_rate |-> [num |-> non_null_count * 100, den |-> NRows(t)]]

\* x['completeness_rate'] of a is greater than that of b (never so for nan)
RateGreater(a, b) ==
    a.completeness_rate.num * b.completeness_rate.den
        > b.completeness_rate.num * a.completeness_rate.den

\* sorted(stats, key=rate, reverse=True): stable, greatest rate first
RECURSIVE InsertByRate(_, _)
InsertByRate(done, x) ==
    IF done = <<>> THEN <<x>>
    ELSE IF RateGreater(x, done[Len(done)])
         THEN Append(InsertByRate(SubSeq(done, 1, Len(done) - 1), x),
                     done[Len(done)])
         ELSE Append(done, x)

RECURSIVE SortByRate(_, _)
SortByRate(stats, n) ==
    IF n = 0 THEN <<>> ELSE InsertByRate(SortByRate(stats, n - 1), stats[n])

calculate_completeness_stats(t) ==
    LET data_cols == SelectSeq(t.columns, LAMBDA c : c \notin Range(ExcelProvenance))
        stats == [i \in 1..Len(data_cols) |-> CompletenessEntry(t, data_cols[i])]
    IN SortByRate(stats, Len(stats))

\* f"{num / den:.1f}%": the nearest tenth, a tie (none below 16 rows) to
\* the even tenth; numpy's 0 / 0 is nan, which formats as 'nan'
FormatRate(num, den) ==
    IF den = 0 THEN <<"nan", "%">>
    ELSE LET q == (num * 10) \div den
             twice == 2 * ((num * 10) % den)
             tenths == IF twice > den \/ (twice = den /\ q % 2 = 1)
                       THEN q + 1 ELSE q
         IN <<ToString(tenths \div 10), ".", ToString(tenths % 10), "%">>

\* create_summary(result)['completeness']: the columns of result.data but
\* '文件名', '工作表名', each with its rate as text
create_summary(t) ==
    LET data_cols == SelectSeq(t.columns, LAMBDA c : c \notin Range(ExcelProvenance))
    IN [i \in 1..Len(data_cols) |->
           [column |-> data_cols[i],
            rate |-> FormatRate(NonNullCount(t, data_cols[i]) * 100, NRows(t))]]

(***************************************************************************)
(* Inputs of the marker search: grids of two columns.  Most rows are the   *)
(* filler row; up to MaxSpecialRows rows are drawn from SpecialRows.       *)
(***************************************************************************)
FillerRow == <<Text(<<"xing", "ming2">>), NULL>>

SpecialRows ==
    { <<NULL, Text(<<"A">> \o DefaultTarget)>>,
      <<Text(<<"shen", "fen">>), Text(<<"zheng", "hao">>)>>,
      <<Text(<<"A", "x", "B">>), Num(1)>>,
      <<Text(<<"a", "b">>), Text(<<"x", "A", "B">>)>> }

Targets == { DefaultTarget, <<"A", ".", "B">>, <<"A", "B">> }

\* the grid of n rows whose rows at the positions DOMAIN f are f's
Grid(n, f) == [i \in 1..n |-> IF i \in DOMAIN f THEN f[i] ELSE FillerRow]

SpecialPositions(n) ==
    { Q \in SUBSET (1..n) : Cardinality(Q) <= MaxSpecialRows }

(***************************************************************************)
(* Inputs of create_headers: rows of up to MaxHeaderCells cells.           *)
(***************************************************************************)
HeaderCells ==
    { NULL, Text(<<"A">>), Text(<<"A", "_", "1">>), Text(<<>>), Num(1),
      Text(Unnamed(1)) }

HeaderRows == UNION { [1..n -> HeaderCells] : n \in 0..MaxHeaderCells }

\* the counters with every workbook counted as skipped from the start
InitialStatsSkipped(files) ==
    [total_files |-> Len(files), processed_files |-> 0, skipped_files |-> Len(files),
     total_sheets |-> 0, processed_sheets |-> 0, skipped_sheets |-> 0,
     files_details |-> <<>>, error_files |-> <<>>]

\* processing_stats before the loop over the workbooks
InitialStats(files) ==
    [total_files |-> Len(files), processed_files |-> 0, skipped_files |-> 0,
     total_sheets |-> 0, processed_sheets |-> 0, skipped_sheets |-> 0,
     files_details |-> <<>>, error_files |-> <<>>]

NoStats == InitialStats(<<>>)

\* ExcelProcessor.__init__: processing_summary and processing_details
NoSummary ==
    [folders_processed |-> 0, files_processed |-> 0, sheets_processed |-> 0,
     sheets_with_id_column |-> 0, total_rows |-> 0]

NoDetails ==
    [processed_sheets |-> <<>>, skipped_sheets |-> <<>>, error_sheets |-> <<>>,
     empty_sheets |-> <<>>]

\* the None that process_sheet returns in place of a table; also no file
NoTable == [none |-> TRUE]

\* column_sources before anything is collected: defaultdict(set)
NoSources == [c \in {} |-> {}]

(***************************************************************************)
(* The values of the variables a specification does not use.               *)
(***************************************************************************)
LocatorIdle ==
    /\ df = <<>>
    /\ target = DefaultTarget
    /\ target_row = None
    /\ id_row_idx = None

HeadersIdle ==
    /\ row_data = <<>>
    /\ headers = <<>>

CleanerIdle ==
    /\ data = EmptyFrame
    /\ cleaned = EmptyFrame
    /\ cleaned2 = EmptyFrame

MergeIdle ==
    /\ all_dataframes = <<>>
    /\ final_df = EmptyFrame
    /\ column_sources = NoSources
    /\ completeness_stats = <<>>
    /\ error = ""
    /\ summary = <<>>
    /\ all_data = <<>>
    /\ merged_df = EmptyFrame
    /\ main_error = ""

RunIdle ==
    /\ excel_files = <<>>
    /\ file_idx = 0
    /\ processing_stats = NoStats

MainRunIdle ==
    /\ target_folders = <<>>
    /\ folder_idx = 0
    /\ processing_summary = NoSummary
    /\ processing_details = NoDetails
    /\ process_folders_returned = "none"

SaveIdle ==
    /\ written = NoTable
    /\ save_excel_returned = "none"
    /\ save_results_returned = "none"
    /\ written_main = NoTable

(***************************************************************************)
(* The marker search on one grid: excel.py's, then main.py's.              *)
(***************************************************************************)
InitLocate ==
    /\ pc = "find_target_row"
    /\ \E n \in 0..MaxGridRows :
          \E P \in SpecialPositions(n) :
             \E f \in [P -> SpecialRows] : df = Grid(n, f)
    /\ target \in Targets
    /\ target_row = None
    /\ id_row_idx = None
    /\ HeadersIdle
    /\ CleanerIdle
    /\ MergeIdle
    /\ RunIdle
    /\ MainRunIdle
    /\ SaveIdle

FindTargetRow ==
    /\ pc = "find_target_row"
    /\ target_row' = find_target_row(df, target)
    /\ pc' = "find_id_column_row"
    /\ UNCHANGED <<df, target, id_row_idx, headerVars, cleanerVars, excelVars, mainVars, saveVars, runVars>>

FindIdColumnRow ==
    /\ pc = "find_id_column_row"
    /\ id_row_idx' = find_id_column_row(df)
    /\ pc' = "located"
    /\ UNCHANGED <<df, target, target_row, headerVars, cleanerVars, excelVars, mainVars, saveVars, runVars>>

NextLocate == FindTargetRow \/ FindIdColumnRow

SpecLocate == InitLocate /\ [][NextLocate]_vars

(***************************************************************************)
(* create_headers on one row.                                              *)
(***************************************************************************)
InitHeaders ==
    /\ pc = "create_headers"
    /\ row_data \in HeaderRows
    /\ headers = <<>>
    /\ LocatorIdle
    /\ CleanerIdle
    /\ MergeIdle
    /\ RunIdle
    /\ MainRunIdle
    /\ SaveIdle

CreateHeaders ==
    /\ pc = "create_headers"
    /\ headers' = create_headers(row_data)
    /\ pc' = "headers_built"
    /\ UNCHANGED <<locatorVars, row_data, cleanerVars, excelVars, mainVars, saveVars, runVars>>

NextHeaders == CreateHeaders

SpecHeaders == InitHeaders /\ [][NextHeaders]_vars

(***************************************************************************)
(* clean_data on one region, and on its own result.  A region has up to    *)
(* MaxRegionCells cells, each null, '', ' ', ' x' or the number 0, under   *)
(* distinct column names, with the row labels left by df.iloc[1:].         *)
(***************************************************************************)
RegionCells ==
    { NULL, Text(<<>>), Text(<<" ">>), Text(<<" ", "x">>), Num(0) }

ColName(j) == <<"C", ToString(j)>>

InitClean ==
    /\ pc = "clean_data"
    /\ \E nr \in 0..MaxRegionCells, nc \in 0..MaxRegionCells :
          /\ nr * nc <= MaxRegionCells
          /\ \E rows \in [1..nr -> [1..nc -> RegionCells]] :
                data = DataFrame([j \in 1..nc |-> ColName(j)],
                                 [r \in 1..nr |-> r], rows)
    /\ cleaned = EmptyFrame
    /\ cleaned2 = EmptyFrame
    /\ LocatorIdle
    /\ HeadersIdle
    /\ MergeIdle
    /\ RunIdle
    /\ MainRunIdle
    /\ SaveIdle

CleanData ==
    /\ pc = "clean_data"
    /\ cleaned' = clean_data(data)
    /\ pc' = "clean_again"
    /\ UNCHANGED <<locatorVars, headerVars, data, cleaned2, excelVars, mainVars, saveVars, runVars>>

CleanAgain ==
    /\ pc = "clean_again"
    /\ cleaned2' = clean_data(cleaned)
    /\ pc' = "cleaned_twice"
    /\ UNCHANGED <<locatorVars, headerVars, data, cleaned, excelVars, mainVars, saveVars, runVars>>

NextClean == CleanData \/ CleanAgain

SpecClean == InitClean /\ [][NextClean]_vars

(***************************************************************************)
(* The merge of excel.py (process_excel_files after its file loop) and of  *)
(* main.py (save_results) on the same cleaned regions.  A region has its   *)
(* labels from ColumnChoices and up to MaxTableRows rows; its cells are    *)
(* texts that name the table, the row and the column; in a run with holes  *)
(* the cells where table + row + column is even are null.                  *)
(***************************************************************************)
ColumnChoices ==
    { << <<"A">>, DefaultTarget >>,
      << <<"B">>, <<"C">> >>,
      << DefaultTarget >>,
      << <<"C">>, <<"A">> >>,
      << <<"A">>, <<"A">> >>,
      << FileCol, <<"B">> >> }

Fills == {"full", "holes"}

Region(k, cols, nr, fill) ==
    DataFrame(cols, [r \in 1..nr |-> r - 1],
        [r \in 1..nr |->
            [j \in 1..Len(cols) |->
                IF fill = "holes" /\ (k + r + j) % 2 = 0 THEN NULL
                ELSE Text(<<"v", ToString(k), ToString(r), ToString(j)>>)]])

FileName(k) == <<"f", ToString(k)>>
SheetName(k) == <<"s", ToString(k)>>
FolderName(k) == <<"d", ToString(k)>>

InitMerge ==
    /\ pc = "merge"
    /\ \E n \in 1..MaxTables :
          \E cols \in [1..n -> ColumnChoices] :
             \E nr \in [1..n -> 1..MaxTableRows] :
                \E fill \in Fills :
                   /\ all_dataframes =
                         [k \in 1..n |->
                             assign(Region(k, cols[k], nr[k], fill),
                                    FileName(k), SheetName(k))]
                   /\ all_data =
                         [k \in 1..n |->
                             TagMain(Region(k, cols[k], nr[k], fill),
                                     FileName(k), SheetName(k), FolderName(k))]
    /\ final_df = EmptyFrame
    /\ column_sources = NoSources
    /\ completeness_stats = <<>>
    /\ error = ""
    /\ summary = <<>>
    /\ merged_df = EmptyFrame
    /\ main_error = ""
    /\ RunIdle
    /\ MainRunIdle
    /\ SaveIdle
    /\ LocatorIdle
    /\ HeadersIdle
    /\ CleanerIdle

\* process_excel_files, from "if not all_dataframes" to the ProcessResult;
\* column_sources is collected before the tables are unified
MergeTables ==
    IF all_dataframes = <<>>
    THEN /\ error' = "ValueError"
         /\ UNCHANGED <<final_df, completeness_stats, column_sources>>
    ELSE IF \E k \in 1..Len(all_dataframes) : HasDuplicateLabels(all_dataframes[k])
    THEN /\ error' = "ValueError"
         /\ UNCHANGED <<final_df, completeness_stats, column_sources>>
    ELSE LET merged == concat(unify_columns(all_dataframes))
         IN /\ column_sources' = collect_column_sources(all_dataframes)
            /\ final_df' = merged
            /\ completeness_stats' = calculate_completeness_stats(merged)
            /\ error' = ""

MergeData ==
    /\ pc = "merge"
    /\ MergeTables
    /\ pc' = "create_summary"
    /\ UNCHANGED <<locatorVars, headerVars, cleanerVars, all_dataframes, summary,
                   mainVars, saveVars, runVars>>

\* create_summary on the ProcessResult, when there is one
CreateSummary ==
    /\ pc = "create_summary"
    /\ summary' = IF error = "" THEN create_summary(final_df) ELSE summary
    /\ pc' = "merge_main"
    /\ UNCHANGED <<locatorVars, headerVars, cleanerVars, all_dataframes, final_df, column_sources,
                   completeness_stats, error, mainVars, saveVars, runVars>>

\* ExcelProcessor.save_results, to the merged table
MergeAllData ==
    /\ pc = "merge_main"
    /\ IF all_data = <<>>
       THEN UNCHANGED <<merged_df, main_error>>
       ELSE IF \E k \in 1..Len(all_data) : HasDuplicateLabels(all_data[k])
       THEN /\ main_error' = "ValueError"
            /\ UNCHANGED merged_df
       ELSE /\ merged_df' = merge_all_data(all_data)
            /\ main_error' = ""
    /\ pc' = "merged"
    /\ UNCHANGED <<locatorVars, headerVars, cleanerVars, excelVars, all_data, runVars,
                   mainRunVars, mainSaveVars, saveVars>>

NextMerge == MergeData \/ CreateSummary \/ MergeAllData

SpecMerge == InitMerge /\ [][NextMerge]_vars

(***************************************************************************)
(* The completeness functions on one table, a table without rows among     *)
(* the inputs.                                                             *)
(***************************************************************************)
InitStats ==
    /\ pc = "calculate_completeness_stats"
    /\ \E k \in 1..MaxTables :
          \E cols \in { c \in ColumnChoices :
                          \A i, j \in 1..Len(c) : i # j => c[i] # c[j] } :
             \E nr \in 0..MaxTableRows :
                \E fill \in Fills :
                   final_df = assign(Region(k, cols, nr, fill),
                                     FileName(k), SheetName(k))
    /\ all_dataframes = <<>>
    /\ completeness_stats = <<>>
    /\ column_sources = NoSources
    /\ error = ""
    /\ summary = <<>>
    /\ all_data = <<>>
    /\ merged_df = EmptyFrame
    /\ main_error = ""
    /\ RunIdle
    /\ MainRunIdle
    /\ SaveIdle
    /\ LocatorIdle
    /\ HeadersIdle
    /\ CleanerIdle

CalculateStats ==
    /\ pc = "calculate_completeness_stats"
    /\ completeness_stats' = calculate_completeness_stats(final_df)
    /\ pc' = "create_summary"
    /\ UNCHANGED <<locatorVars, headerVars, cleanerVars, all_dataframes, final_df, column_sources,
                   error, summary, mainVars, saveVars, runVars>>

NextStats == CalculateStats \/ CreateSummary

SpecStats == InitStats /\ [][NextStats]_vars

(***************************************************************************)
(* excel.py, a whole run: process_excel_files over the workbooks that      *)
(* get_excel_files found.  A workbook opens, and then has a worksheet or    *)
(* more, or does not open; a worksheet is read as a grid or raises on      *)
(* reading.  File and sheet names are given by position.                   *)
(***************************************************************************)
IdCell(n) == Text(DefaultTarget \o <<ToString(n)>>)

HeaderAB == <<Text(DefaultTarget), Text(<<"A">>)>>

SheetCatalogue ==
    { [readable |-> FALSE, grid |-> <<>>],
      [readable |-> TRUE, grid |-> <<>>],
      [readable |-> TRUE, grid |-> << <<Text(<<"x">>), Num(1)>> >>],
      [readable |-> TRUE, grid |-> << HeaderAB, <<IdCell(1), Num(1)>>,
                                      <<IdCell(2), NULL>> >>],
      [readable |-> TRUE, grid |-> << <<Text(<<"t">>), NULL>>,
                                      <<Text(<<"B">>), Text(DefaultTarget)>>,
                                      <<Num(3), IdCell(3)>>,
                                      <<Num(3), IdCell(3)>> >>],
      [readable |-> TRUE, grid |-> << HeaderAB, <<NULL, Text(<<" ">>)>> >>] }

\* the rows from the matched row on, the matched row among them
RowsFrom(grid, row, hs) ==
    DataFrame(hs, [r \in 1..(Len(grid) - row) |-> row + r - 1],
              [r \in 1..(Len(grid) - row) |-> grid[row + r]])

\* df.iloc[target_row + 1:] with data.columns = headers
RowsBelow(grid, row, hs) ==
    DataFrame(hs, [r \in 1..(Len(grid) - row - 1) |-> row + r],
              [r \in 1..(Len(grid) - row - 1) |-> grid[row + 1 + r]])

\* process_sheet under handle_errors: the tagged table, or None (NoTable)
process_sheet(sheet, file_name, sheet_name) ==
    IF ~sheet.readable THEN NoTable
    ELSE IF sheet.grid = <<>> THEN NoTable
    ELSE LET row == find_target_row(sheet.grid, DefaultTarget)
         IN IF row = None THEN NoTable
            ELSE LET x == assign(clean_data(RowsBelow(sheet.grid, row,
                                     create_headers(sheet.grid[row + 1]))),
                                 file_name, sheet_name)
                 IN IF empty(x) THEN NoTable ELSE x

\* sheet_detail of a worksheet: has_target is set only with a result, and
\* message is the line logged for the worksheet
SheetDetail(sheet_name, result) ==
    IF result # NoTable
    THEN [sheet_name |-> sheet_name, has_target |-> TRUE,
          data_rows |-> NRows(result),
          columns_count |-> Len(SelectSeq(result.columns,
                                   LAMBDA c : c \notin Range(ExcelProvenance))),
          message |-> "target_found"]
    ELSE [sheet_name |-> sheet_name, has_target |-> FALSE,
          data_rows |-> 0, columns_count |-> 0,
          message |-> "target_row_not_found"]

\* the loop with every worksheet that gave no table tried a second time
RECURSIVE ProcessSheetsRetry(_, _, _, _, _)
ProcessSheetsRetry(book, file_name, j, processed_dfs, file_stats) ==
    IF j > Len(book.sheets) THEN [dfs |-> processed_dfs, stats |-> file_stats]
    ELSE LET result == process_sheet(book.sheets[j], file_name, SheetName(j))
             sheet_detail == SheetDetail(SheetName(j), result)
         IN ProcessSheetsRetry(book, file_name, j + 1,
                IF result # NoTable THEN Append(processed_dfs, result)
                ELSE processed_dfs,
                IF result # NoTable
                THEN [file_stats EXCEPT
                         !.sheets_processed = @ + 1,
                         !.total_data_rows = @ + NRows(result),
                         !.sheet_details = Append(@, sheet_detail)]
                ELSE [file_stats EXCEPT
                         !.sheets_skipped = @ + 2,
                         !.sheet_details = Append(Append(@, sheet_detail),
                                                  sheet_detail)])

\* process_file's loop: processed_dfs and file_stats after the worksheets
\* from j on
RECURSIVE ProcessSheets(_, _, _, _, _)
ProcessSheets(book, file_name, j, processed_dfs, file_stats) ==
    IF j > Len(book.sheets) THEN [dfs |-> processed_dfs, stats |-> file_stats]
    ELSE LET result == process_sheet(book.sheets[j], file_name, SheetName(j))
             sheet_detail == SheetDetail(SheetName(j), result)
         IN ProcessSheets(book, file_name, j + 1,
                IF result # NoTable THEN Append(processed_dfs, result)
                ELSE processed_dfs,
                IF result # NoTable
                THEN [file_stats EXCEPT
                         !.sheets_processed = @ + 1,
                         !.total_data_rows = @ + NRows(result),
                         !.sheet_details = Append(@, sheet_detail)]
                ELSE [file_stats EXCEPT
                         !.sheets_skipped = @ + 1,
                         !.sheet_details = Append(@, sheet_detail)])

\* process_file: the tables and the file_stats of one workbook
process_file(book, file_name) ==
    LET file_stats == [file_name |-> file_name, error |-> FALSE,
                       total_sheets |-> 0, sheets_processed |-> 0,
                       sheets_skipped |-> 0, total_data_rows |-> 0,
                       sheet_details |-> <<>>]
    IN IF ~book.readable
       THEN [dfs |-> <<>>, stats |-> [file_stats EXCEPT !.error = TRUE]]
       ELSE ProcessSheets(book, file_name, 1, <<>>,
                          [file_stats EXCEPT !.total_sheets = Len(book.sheets)])

\* ProcessResult.total_rows
total_rows == NRows(final_df)

\* list.extend, and its mirror image
ExtendFront(list, items) == items \o list

extend(list, items) == list \o items

RECURSIVE Sum(_, _)
Sum(f, n) == IF n = 0 THEN 0 ELSE Sum(f, n - 1) + f[n]

Init ==
    /\ pc = "get_excel_files"
    /\ \E n \in 0..MaxFiles :
          \E opens \in [1..n -> BOOLEAN] :
             \E cnt \in [1..n -> 0..MaxSheets] :
                /\ Sum(cnt, n) <= MaxSheets
                /\ \A k \in 1..n : cnt[k] = 0 <=> ~opens[k]
                /\ \E kinds \in [1..Sum(cnt, n) -> SheetCatalogue] :
                      excel_files =
                         [k \in 1..n |->
                             [readable |-> opens[k],
                              sheets |-> [j \in 1..cnt[k] |->
                                             kinds[Sum(cnt, k - 1) + j]]]]
    /\ file_idx = 0
    /\ processing_stats = NoStats
    /\ LocatorIdle
    /\ HeadersIdle
    /\ CleanerIdle
    /\ MergeIdle
    /\ MainRunIdle
    /\ SaveIdle

\* get_excel_files and the counters set up after it
GetExcelFiles ==
    /\ pc = "get_excel_files"
    /\ IF excel_files = <<>>
       THEN /\ error' = "FileNotFoundError"
            /\ pc' = "raised"
            /\ UNCHANGED processing_stats
       ELSE /\ processing_stats' = InitialStats(excel_files)
            /\ pc' = "process_file"
            /\ UNCHANGED error
    /\ UNCHANGED <<locatorVars, headerVars, cleanerVars, all_dataframes, final_df, column_sources,
                   completeness_stats, summary, mainVars, saveVars, excel_files, file_idx>>

\* one turn of the loop over excel_files
ProcessFile ==
    /\ pc = "process_file"
    /\ file_idx < Len(excel_files)
    /\ LET r == process_file(excel_files[file_idx + 1], FileName(file_idx + 1))
           file_stats == r.stats
       IN IF file_stats.error
          THEN /\ processing_stats' =
                     [processing_stats EXCEPT
                         !.error_files = Append(@, FileName(file_idx + 1)),
                         !.skipped_files = @ + 1]
               /\ UNCHANGED all_dataframes
          ELSE /\ all_dataframes' = extend(all_dataframes, r.dfs)
               /\ processing_stats' =
                     [processing_stats EXCEPT
                         !.total_sheets = @ + file_stats.total_sheets,
                         !.processed_sheets = @ + file_stats.sheets_processed,
                         !.skipped_sheets = @ + file_stats.sheets_skipped,
                         !.processed_files =
                             IF file_stats.sheets_processed > 0 THEN @ + 1 ELSE @,
                         !.skipped_files =
                             IF file_stats.sheets_processed > 0 THEN @ ELSE @ + 1,
                         !.files_details = Append(@, file_stats)]
    /\ file_idx' = file_idx + 1
    /\ UNCHANGED <<pc, locatorVars, headerVars, cleanerVars, final_df, column_sources,
                   completeness_stats, error, summary, mainVars, saveVars, excel_files>>

\* after the loop: ValueError without tables, else the merge and the stats
FinishRun ==
    /\ pc = "process_file"
    /\ file_idx = Len(excel_files)
    /\ MergeTables
    /\ pc' = IF all_dataframes = <<>> THEN "raised" ELSE "done"
    /\ UNCHANGED <<locatorVars, headerVars, cleanerVars, all_dataframes, summary,
                   mainVars, saveVars, runVars>>

\* main() after process_excel_files: the table is saved if the user asks
\* for it; save_excel writes the file or logs the failure, returns None
\* either way, and main() returns result.data
SaveExcel ==
    /\ pc = "done"
    /\ \/ UNCHANGED saveVars
       \/ /\ written' = final_df
          /\ save_excel_returned' = "None"
       \/ /\ save_excel_returned' = "None"
          /\ UNCHANGED written
    /\ pc' = "main_returned"
    /\ UNCHANGED <<locatorVars, headerVars, cleanerVars, excelVars, mainVars, runVars>>

(***************************************************************************)
(* main.py, a whole run: ExcelProcessor.run, that is process_folders over  *)
(* the folders found and then save_results.  A folder is the sequence of   *)
(* its workbooks.  run() asks for the source folder until it exists.       *)
(***************************************************************************)
UnnamedColumn == <<"wei", "ming4", "ming2", "lie">>

\* df.iloc[id_row_idx].fillna('未命名列').astype(str)
new_columns(row) ==
    [j \in 1..Len(row) |-> IF notna(row[j]) THEN str(row[j]) ELSE UnnamedColumn]

\* one turn of process_excel_file's loop: the worksheet's sheet_info goes
\* to one list of processing_details, its table, if any, to file_data
ProcessMainSheet(sheet, file_name, sheet_name, folder_name, acc) ==
    LET sheet_info == [folder_name |-> folder_name, file_name |-> file_name,
                       sheet_name |-> sheet_name, status |-> "", reason |-> "",
                       original_rows |-> 0, processed_rows |-> 0,
                       columns_count |-> 0]
    IN IF ~sheet.readable
       THEN LET info == [sheet_info EXCEPT !.status = "error",
                                           !.reason = "read_excel_raised"]
            IN [acc EXCEPT !.details.error_sheets = Append(@, info),
                           !.sheets_info = Append(@, info)]
       ELSE IF sheet.grid = <<>>
       THEN LET info == [sheet_info EXCEPT !.status = "skipped",
                                           !.reason = "sheet_empty"]
            IN [acc EXCEPT !.details.empty_sheets = Append(@, info),
                           !.sheets_info = Append(@, info)]
       ELSE LET row_idx == find_id_column_row(sheet.grid)
                original == [sheet_info EXCEPT !.original_rows = Len(sheet.grid)]
            IN IF row_idx = None
               THEN LET info == [original EXCEPT !.status = "skipped",
                                                 !.reason = "id_column_not_found"]
                    IN [acc EXCEPT !.details.skipped_sheets = Append(@, info),
                                   !.summary.sheets_processed = @ + 1,
                                   !.sheets_info = Append(@, info)]
               ELSE LET data_df ==
                            clean_dataframe(RowsBelow(sheet.grid, row_idx,
                                new_columns(sheet.grid[row_idx + 1])))
                    IN IF empty(data_df)
                       THEN LET info == [original EXCEPT
                                            !.status = "skipped",
                                            !.reason = "empty_after_cleaning"]
                            IN [acc EXCEPT
                                   !.details.skipped_sheets = Append(@, info),
                                   !.summary.sheets_with_id_column = @ + 1,
                                   !.summary.sheets_processed = @ + 1,
                                   !.sheets_info = Append(@, info)]
                       ELSE LET tagged == TagMain(data_df, file_name, sheet_name,
                                                  folder_name)
                                info == [original EXCEPT
                                            !.status = "processed",
                                            !.reason = "has_id_column",
                                            !.processed_rows = NRows(tagged),
                                            !.columns_count = NCols(tagged)]
                            IN [acc EXCEPT
                                   !.file_data = Append(@, tagged),
                                   !.details.processed_sheets = Append(@, info),
                                   !.summary.sheets_with_id_column = @ + 1,
                                   !.summary.total_rows = @ + NRows(tagged),
                                   !.summary.sheets_processed = @ + 1,
                                   !.sheets_info = Append(@, info)]

RECURSIVE ProcessMainSheets(_, _, _, _, _)
ProcessMainSheets(book, file_name, folder_name, j, acc) ==
    IF j > Len(book.sheets) THEN acc
    ELSE ProcessMainSheets(book, file_name, folder_name, j + 1,
             ProcessMainSheet(book.sheets[j], file_name, SheetName(j),
                              folder_name, acc))

\* process_excel_file: file_data and sheets_info of one workbook, with the
\* processing_summary and processing_details it leaves; a workbook that
\* does not open leaves a line in the log and nothing else
process_excel_file(book, file_name, folder_name, psummary, pdetails) ==
    LET acc == [file_data |-> <<>>, sheets_info |-> <<>>,
                summary |-> psummary, details |-> pdetails]
    IN IF ~book.readable THEN acc
       ELSE LET done == ProcessMainSheets(book, file_name, folder_name, 1, acc)
            IN [done EXCEPT !.summary.files_processed = @ + 1]

\* process_folders' loop over the excel_files of one folder
RECURSIVE ProcessFolderFiles(_, _, _, _)
ProcessFolderFiles(folder, folder_name, k, acc) ==
    IF k > Len(folder) THEN acc
    ELSE LET r == process_excel_file(folder[k], FileName(k), folder_name,
                                     acc.summary, acc.details)
         IN ProcessFolderFiles(folder, folder_name, k + 1,
                [folder_processed_data |->
                     extend(acc.folder_processed_data, r.file_data),
                 folder_sheets_info |->
                     extend(acc.folder_sheets_info, r.sheets_info),
                 summary |-> r.summary, details |-> r.details])

(***************************************************************************)
(* Workbooks and folders of the runs: a workbook that does not open, and   *)
(* workbooks whose worksheets cover every outcome, repeated and missing    *)
(* header labels and a header label that is a provenance label.  An empty  *)
(* text cell is read as a null cell by read_excel.                         *)
(***************************************************************************)
Sheet(grid) == [readable |-> TRUE, grid |-> grid]

SheetAB ==
    Sheet(<< HeaderAB, <<IdCell(1), Num(1)>>, <<IdCell(2), NULL>> >>)

SheetTitled ==
    Sheet(<< <<Text(<<"t">>), NULL>>,
             <<Text(<<"B">>), Text(DefaultTarget)>>,
             <<Num(3), IdCell(3)>>,
             <<NULL, NULL>>,
             <<Num(4), IdCell(4)>> >>)

SheetNoMarker == Sheet(<< <<Text(<<"x">>), Num(1)>> >>)

SheetBlankBelow == Sheet(<< HeaderAB, <<NULL, Text(<<" ">>)>> >>)

SheetNoData == Sheet(<< HeaderAB, <<NULL, NULL>> >>)

SheetUnnamed ==
    Sheet(<< <<Text(DefaultTarget), NULL, NULL>>,
             <<IdCell(5), Num(1), Num(2)>> >>)

SheetProvenanceLabel ==
    Sheet(<< <<Text(DefaultTarget), Text(FileCol)>>,
             <<NULL, Text(<<"x">>)>> >>)

SheetRepeatedLabel ==
    Sheet(<< <<Text(DefaultTarget), Text(<<"A">>), Text(<<"A">>)>>,
             <<IdCell(6), Num(1), Num(2)>> >>)

Book(sheets) == [readable |-> TRUE, sheets |-> sheets]

BookUnreadable == [readable |-> FALSE, sheets |-> <<>>]

WorkbookCatalogue ==
    { BookUnreadable,
      Book(<<SheetAB, SheetNoMarker>>),
      Book(<<[readable |-> FALSE, grid |-> <<>>], Sheet(<<>>), SheetBlankBelow,
             SheetNoData>>),
      Book(<<SheetTitled>>),
      Book(<<SheetUnnamed>>),
      Book(<<SheetProvenanceLabel, SheetRepeatedLabel>>) }

FolderCatalogue ==
    { <<>>,
      <<BookUnreadable, Book(<<SheetAB, SheetNoMarker>>)>>,
      <<Book(<<[readable |-> FALSE, grid |-> <<>>], Sheet(<<>>), SheetBlankBelow,
               SheetNoData, SheetTitled>>)>>,
      <<Book(<<SheetUnnamed>>)>>,
      <<Book(<<SheetProvenanceLabel>>)>>,
      <<Book(<<SheetNoMarker>>), BookUnreadable>> }

\* a run of excel.py over workbooks of the catalogue
InitBooks ==
    /\ pc = "get_excel_files"
    /\ \E n \in 0..MaxFiles : excel_files \in [1..n -> WorkbookCatalogue]
    /\ file_idx = 0
    /\ processing_stats = NoStats
    /\ LocatorIdle
    /\ HeadersIdle
    /\ CleanerIdle
    /\ MergeIdle
    /\ MainRunIdle
    /\ SaveIdle

\* a run of main.py over folders of the catalogue
InitFolders ==
    /\ pc = "process_folders"
    /\ \E n \in 0..MaxFolders : target_folders \in [1..n -> FolderCatalogue]
    /\ folder_idx = 0
    /\ processing_summary = NoSummary
    /\ processing_details = NoDetails
    /\ process_folders_returned = "none"
    /\ LocatorIdle
    /\ HeadersIdle
    /\ CleanerIdle
    /\ MergeIdle
    /\ RunIdle
    /\ SaveIdle

\* process_folders before its loop
FindFolders ==
    /\ pc = "process_folders"
    /\ IF target_folders = <<>>
       THEN /\ process_folders_returned' = "False"
            /\ pc' = "run_returned"
       ELSE /\ pc' = "process_folder"
            /\ UNCHANGED process_folders_returned
    /\ UNCHANGED <<locatorVars, headerVars, cleanerVars, excelVars, runVars, saveVars,
                   all_data, merged_df, main_error, target_folders, folder_idx,
                   processing_summary, processing_details, mainSaveVars>>

\* one turn of process_folders' loop over target_folders; all_data holds
\* all_processed_data while the loop runs
ProcessFolder ==
    /\ pc = "process_folder"
    /\ folder_idx < Len(target_folders)
    /\ LET folder == target_folders[folder_idx + 1]
       IN IF folder = <<>>
          THEN UNCHANGED <<all_data, processing_summary, processing_details>>
          ELSE LET r == ProcessFolderFiles(folder, FolderName(folder_idx + 1), 1,
                            [folder_processed_data |-> <<>>,
                             folder_sheets_info |-> <<>>,
                             summary |-> processing_summary,
                             details |-> processing_details])
               IN /\ all_data' = extend(all_data, r.folder_processed_data)
                  /\ processing_summary' =
                        [r.summary EXCEPT !.folders_processed = @ + 1]
                  /\ processing_details' = r.details
    /\ folder_idx' = folder_idx + 1
    /\ UNCHANGED <<pc, locatorVars, headerVars, cleanerVars, excelVars, runVars,
                   saveVars, merged_df, main_error, target_folders,
                   process_folders_returned, mainSaveVars>>

\* process_folders after its loop, and run()'s test of what it returned
FinishFolders ==
    /\ pc = "process_folder"
    /\ folder_idx = Len(target_folders)
    /\ process_folders_returned' = IF Len(all_data) > 0 THEN "True" ELSE "False"
    /\ pc' = IF Len(all_data) > 0 THEN "save_results" ELSE "run_returned"
    /\ UNCHANGED <<locatorVars, headerVars, cleanerVars, excelVars, runVars, saveVars,
                   all_data, merged_df, main_error, target_folders, folder_idx,
                   processing_summary, processing_details, mainSaveVars>>

\* save_results: merge_all_data, which raises on a repeated label, then
\* to_excel, which writes the file or raises; run() catches what is raised
SaveResults ==
    /\ pc = "save_results"
    /\ IF all_data = <<>>
       THEN /\ save_results_returned' = "False"
            /\ UNCHANGED <<merged_df, main_error, written_main>>
       ELSE IF \E k \in 1..Len(all_data) : HasDuplicateLabels(all_data[k])
       THEN /\ main_error' = "ValueError"
            /\ UNCHANGED <<merged_df, save_results_returned, written_main>>
       ELSE LET merged == merge_all_data(all_data)
            IN /\ merged_df' = merged
               /\ UNCHANGED main_error
               /\ IF empty(merged)
                  THEN /\ save_results_returned' = "False"
                       /\ UNCHANGED written_main
                  ELSE \/ /\ written_main' = merged
                          /\ save_results_returned' = "True"
                       \/ /\ save_results_returned' = "False"
                          /\ UNCHANGED written_main
    /\ pc' = "run_returned"
    /\ UNCHANGED <<locatorVars, headerVars, cleanerVars, excelVars, runVars, saveVars,
                   all_data, mainRunVars>>

Next ==
    \/ GetExcelFiles
    \/ ProcessFile
    \/ FinishRun
    \/ SaveExcel
    \/ FindFolders
    \/ ProcessFolder
    \/ FinishFolders
    \/ SaveResults

Spec == (Init \/ InitBooks \/ InitFolders) /\ [][Next]_vars

\* the runs over the catalogues, which go on while a step is left to take:
\* both programs are sequential code without a wait
\* weak fairness of the three loop steps is written with their guards, which
\* is when they can take a step
LoopFairness ==
    /\ []<>(~(pc = "process_file" /\ file_idx < Len(excel_files)))
          \/ []<><<ProcessFile>>_vars
    /\ []<>(~(pc = "process_file" /\ file_idx = Len(excel_files)))
          \/ []<><<FinishRun>>_vars
    /\ []<>(~(pc = "process_folder" /\ folder_idx < Len(target_folders)))
          \/ []<><<ProcessFolder>>_vars

SpecLive ==
    /\ InitBooks \/ InitFolders
    /\ [][Next]_vars
    /\ WF_vars(GetExcelFiles)
    /\ WF_vars(FindFolders)
    /\ WF_vars(FinishFolders)
    /\ LoopFairness

(***************************************************************************)
(* C1.  The marker search returns the lowest row index r below             *)
(* min(10, number of rows) such that a cell of row r contains the marker,  *)
(* and None when the marker occurs only from row 10 on or nowhere.  The    *)
(* marker is the default target of find_target_row and the literal of      *)
(* find_id_column_row.                                                     *)
(***************************************************************************)
CellHasMarker(c) == c.k # "null" /\ Contains(c.s, DefaultTarget)

MarkerRows(grid) ==
    { r \in 0..(Len(grid) - 1) :
        \E j \in 1..Len(grid[r + 1]) : CellHasMarker(grid[r + 1][j]) }

LowestMarkerRow(grid) ==
    LET S == { r \in MarkerRows(grid) : r < 10 }
    IN IF S = {} THEN None ELSE CHOOSE r \in S : \A q \in S : r <= q

C1_LowestMarkerRow ==
    /\ (pc \in {"find_id_column_row", "located"} /\ target = DefaultTarget)
          => target_row = LowestMarkerRow(df)
    /\ pc = "located" => id_row_idx = LowestMarkerRow(df)

\* the marker occurs, but only from row 10 on, and both searches answer None
C1_Witness ==
    /\ pc = "located"
    /\ target = DefaultTarget
    /\ MarkerRows(df) # {}
    /\ \A r \in MarkerRows(df) : r >= 10
    /\ target_row = None
    /\ id_row_idx = None

\* the marker occurs in two rows below 10 and the lower one is returned
C1_WitnessLowest ==
    /\ pc = "located"
    /\ target = DefaultTarget
    /\ Cardinality({ r \in MarkerRows(df) : r < 10 }) = 2
    /\ target_row = id_row_idx
    /\ target_row # None

(***************************************************************************)
(* C2.  find_target_row(df, target) matches a row only if one of its       *)
(* non-null cells has a text that literally contains target: a null cell   *)
(* never matches and target is never read as a pattern.                    *)
(***************************************************************************)
LiteralNonNullMatch(row, tgt) ==
    \E j \in 1..Len(row) : row[j].k # "null" /\ Contains(row[j].s, tgt)

C2_LiteralNonNullMatch ==
    (pc \in {"find_id_column_row", "located"} /\ target_row # None)
        => LiteralNonNullMatch(df[target_row + 1], target)

\* the regular expression A.B matched a row that nowhere holds the text A.B
C2_PatternMatched ==
    /\ pc = "located"
    /\ target = <<"A", ".", "B">>
    /\ target_row # None
    /\ ~LiteralNonNullMatch(df[target_row + 1], target)

(***************************************************************************)
(* C3.  create_headers returns as many names as the row has cells, the     *)
(* i-th name derived from the i-th cell (it starts with the cell's text,   *)
(* or with the placeholder of index i for a null cell), and the names are  *)
(* pairwise distinct.                                                      *)
(***************************************************************************)
IsPrefix(p, s) == Len(p) <= Len(s) /\ SubSeq(s, 1, Len(p)) = p

C3_HeadersDistinct ==
    pc = "headers_built" =>
        /\ Len(headers) = Len(row_data)
        /\ \A i \in 1..Len(headers) :
              IsPrefix(IF row_data[i].k = "null" THEN Unnamed(i - 1)
                       ELSE row_data[i].s, headers[i])
        /\ \A i, j \in 1..Len(headers) : i # j => headers[i] # headers[j]

\* a row with a repeated label and two null cells
C3_Witness ==
    /\ pc = "headers_built"
    /\ Len(row_data) = 4
    /\ \E i, j \in 1..4 : i < j /\ row_data[i] = row_data[j] /\ row_data[i].k = "text"
    /\ Cardinality({ i \in 1..4 : row_data[i].k = "null" }) = 2
    /\ Cardinality({ headers[i] : i \in 1..4 }) = 4

(***************************************************************************)
(* C4.  Left to right, the candidate of cell i is its text, or unnamed_i   *)
(* for a null cell; the name assigned is the candidate if no earlier       *)
(* assigned name equals it, and otherwise candidate_k for the smallest     *)
(* k >= 1 such that candidate_k is not an earlier assigned name.           *)
(* [A, A, null, A] gives [A, A_1, unnamed_2, A_2].                         *)
(***************************************************************************)
Candidate(i) ==
    IF row_data[i].k = "null" THEN <<"wei", "ming4", "ming2", "_", ToString(i - 1)>>
    ELSE row_data[i].s

Earlier(i) == { headers[j] : j \in 1..(i - 1) }

WithSuffix(c, k) == c \o <<"_", ToString(k)>>

C4_NamingRule ==
    pc = "headers_built" =>
        /\ Len(headers) = Len(row_data)
        /\ \A i \in 1..Len(headers) :
              IF Candidate(i) \notin Earlier(i)
              THEN headers[i] = Candidate(i)
              ELSE \E k \in 1..Len(headers) :
                      /\ headers[i] = WithSuffix(Candidate(i), k)
                      /\ WithSuffix(Candidate(i), k) \notin Earlier(i)
                      /\ \A m \in 1..(k - 1) :
                            WithSuffix(Candidate(i), m) \in Earlier(i)
        /\ row_data = <<Text(<<"A">>), Text(<<"A">>), NULL, Text(<<"A">>)>>
              => headers = << <<"A">>, <<"A", "_", "1">>,
                              <<"wei", "ming4", "ming2", "_", "2">>,
                              <<"A", "_", "2">> >>

\* the row of the example, with its names assigned
C4_Witness ==
    /\ pc = "headers_built"
    /\ row_data = <<Text(<<"A">>), Text(<<"A">>), NULL, Text(<<"A">>)>>
    /\ headers[4] = <<"A", "_", "2">>

(***************************************************************************)
(* C5.  clean_data is idempotent: cleaning the cleaned table gives the     *)
(* cleaned table (same columns, same rows, same values); two tables        *)
(* without rows or without columns count as the same empty result.         *)
(***************************************************************************)
SameResult(a, b) ==
    \/ a = b
    \/ (NRows(a) = 0 \/ NCols(a) = 0) /\ (NRows(b) = 0 \/ NCols(b) = 0)

C5_CleanIdempotent ==
    pc = "cleaned_twice" => SameResult(cleaned2, cleaned)

\* the second cleaning dropped a row of a table that has rows and columns
C5_SecondCleanDropsRow ==
    /\ pc = "cleaned_twice"
    /\ NCols(cleaned2) = NCols(cleaned)
    /\ NRows(cleaned2) >= 1
    /\ NRows(cleaned2) < NRows(cleaned)

(***************************************************************************)
(* What the merge claims speak of: the tables that went in, and where a    *)
(* row of the merged table came from.                                      *)
(***************************************************************************)
MainProvenance == {FileCol, SheetCol, FolderCol}

DistinctLabels(tables) ==
    \A k \in 1..Len(tables) :
        \A i, j \in 1..Len(tables[k].columns) :
            i # j => tables[k].columns[i] # tables[k].columns[j]

RECURSIVE RowsBefore(_, _)
RowsBefore(tables, k) ==
    IF k <= 1 THEN 0
    ELSE RowsBefore(tables, k - 1) + Len(tables[k - 1].rows)

TotalRows(tables) == RowsBefore(tables, Len(tables) + 1)

DataLabels(tables, prov) ==
    { c \in UNION { { tables[k].columns[j] : j \in 1..Len(tables[k].columns) } :
                      k \in 1..Len(tables) } : c \notin prov }

\* the cell of table t at row r under label c
CellOf(t, r, c) ==
    t.rows[r][CHOOSE j \in 1..Len(t.columns) : t.columns[j] = c]

HasLabel(t, c) == \E j \in 1..Len(t.columns) : t.columns[j] = c

(***************************************************************************)
(* C6.  The merge is a union that loses nothing: every data column label   *)
(* of any input table is a column of the merged table, and the merged      *)
(* table has as many rows as the input tables together.  Stated for input  *)
(* tables with pairwise distinct labels, for excel.py and for main.py.     *)
(***************************************************************************)
UnionKeepsAll(tables, merged, prov) ==
    /\ \A c \in DataLabels(tables, prov) : HasLabel(merged, c)
    /\ Len(merged.rows) = TotalRows(tables)

C6_SchemaUnion ==
    /\ (pc \in {"create_summary", "merge_main", "merged"}
           /\ DistinctLabels(all_dataframes))
          => /\ error = ""
             /\ UnionKeepsAll(all_dataframes, final_df, {FileCol, SheetCol})
    /\ (pc = "merged" /\ DistinctLabels(all_data))
          => /\ main_error = ""
             /\ UnionKeepsAll(all_data, merged_df, MainProvenance)

\* two tables that share no data label and one that they share were merged
C6_Witness ==
    /\ pc = "merged"
    /\ Len(all_dataframes) = 2
    /\ DistinctLabels(all_data)
    /\ HasLabel(all_dataframes[1], <<"C">>) /\ ~HasLabel(all_dataframes[2], <<"C">>)
    /\ HasLabel(all_dataframes[1], <<"A">>) /\ HasLabel(all_dataframes[2], <<"A">>)
    /\ HasLabel(final_df, DefaultTarget)
    /\ Len(final_df.rows) = 5
    /\ Len(merged_df.rows) = 5

(***************************************************************************)
(* C7.  The columns of the merged table are the data labels in ascending   *)
(* code point order, then the provenance labels as the last columns; no    *)
(* provenance label stands among or before the data labels.  For excel.py  *)
(* and for main.py.                                                        *)
(***************************************************************************)
Ascending(cols, n) == \A i, j \in 1..n : i < j => StrLess(cols[i], cols[j])

C7_ExcelOrder ==
    LET cols == final_df.columns
        n == Len(cols) - 2
    IN /\ n >= 0
       /\ SubSeq(cols, n + 1, n + 2) = <<FileCol, SheetCol>>
       /\ \A i \in 1..n : cols[i] \notin {FileCol, SheetCol}
       /\ Ascending(cols, n)

C7_MainOrder ==
    LET cols == merged_df.columns
        n == Len(cols) - 3
    IN /\ n >= 0
       /\ { cols[i] : i \in (n + 1)..(n + 3) } = MainProvenance
       /\ \A i \in 1..n : cols[i] \notin MainProvenance
       /\ Ascending(cols, n)

C7_SchemaOrder ==
    /\ (pc \in {"create_summary", "merge_main", "merged"} /\ error = "") => C7_ExcelOrder
    /\ (pc = "merged" /\ main_error = "") => C7_MainOrder

\* C7, the half that is about excel.py
C7_ExcelSchemaOrder ==
    (pc \in {"create_summary", "merge_main", "merged"} /\ error = "") => C7_ExcelOrder

\* main.py merged a table whose marker column follows the provenance columns
C7_MainProvenanceInside ==
    /\ pc = "merged"
    /\ main_error = ""
    /\ \E i, j \in 1..Len(merged_df.columns) :
          /\ i < j
          /\ merged_df.columns[i] \in MainProvenance
          /\ merged_df.columns[j] = DefaultTarget

(***************************************************************************)
(* C8.  A row of the merged table that comes from input table T holds, in  *)
(* every data column c, T's value of that row if c is a label of T and     *)
(* null if it is not.  Two tables of 3 rows with 2 data columns each, all  *)
(* filled and no label shared, merge into 6 rows and 4 data columns, each  *)
(* null in exactly 3 rows.                                                 *)
(***************************************************************************)
ValuesKept(tables, merged, prov) ==
    \A k \in 1..Len(tables) :
        \A r \in 1..Len(tables[k].rows) :
            \A c \in { merged.columns[j] : j \in 1..Len(merged.columns) } \ prov :
                CellOf(merged, RowsBefore(tables, k) + r, c)
                    = IF HasLabel(tables[k], c) THEN CellOf(tables[k], r, c)
                      ELSE NULL

Filled(t) ==
    \A r \in 1..Len(t.rows) : \A j \in 1..Len(t.columns) : t.rows[r][j].k # "null"

TwoDisjointTables(tables, prov) ==
    /\ Len(tables) = 2
    /\ \A k \in 1..2 :
          /\ Len(tables[k].rows) = 3
          /\ Cardinality(DataLabels(<<tables[k]>>, prov)) = 2
          /\ Filled(tables[k])
    /\ DataLabels(<<tables[1]>>, prov) \cap DataLabels(<<tables[2]>>, prov) = {}

HalfNull(merged, prov) ==
    /\ Len(merged.rows) = 6
    /\ Cardinality({ merged.columns[j] : j \in 1..Len(merged.columns) } \ prov) = 4
    /\ \A c \in { merged.columns[j] : j \in 1..Len(merged.columns) } \ prov :
          Cardinality({ r \in 1..6 : CellOf(merged, r, c).k = "null" }) = 3

C8_ReindexKeepsValues ==
    /\ (pc \in {"create_summary", "merge_main", "merged"}
           /\ DistinctLabels(all_dataframes))
          => /\ ValuesKept(all_dataframes, final_df, {FileCol, SheetCol})
             /\ TwoDisjointTables(all_dataframes, {FileCol, SheetCol})
                   => HalfNull(final_df, {FileCol, SheetCol})
    /\ (pc = "merged" /\ DistinctLabels(all_data))
          => /\ ValuesKept(all_data, merged_df, MainProvenance)
             /\ TwoDisjointTables(all_data, MainProvenance)
                   => HalfNull(merged_df, MainProvenance)

\* the two tables of the example, merged by both programs
C8_Witness ==
    /\ pc = "merged"
    /\ TwoDisjointTables(all_dataframes, {FileCol, SheetCol})
    /\ TwoDisjointTables(all_data, MainProvenance)
    /\ Len(final_df.rows) = 6
    /\ Len(merged_df.rows) = 6

(***************************************************************************)
(* C9.  The rows of the merged table are the rows of the tagged tables in  *)
(* the order the tables were produced (workbooks in the order found,       *)
(* worksheets in workbook order), each table's rows in their own order,    *)
(* none reordered and none dropped; rows and column order are a function   *)
(* of the inputs in their order.                                           *)
(***************************************************************************)
\* the (workbook, worksheet) positions that yield a table, in order
RECURSIVE YieldsFrom(_, _)
YieldsFrom(k, j) ==
    IF k > Len(excel_files) THEN <<>>
    ELSE IF ~excel_files[k].readable \/ j > Len(excel_files[k].sheets)
    THEN YieldsFrom(k + 1, 1)
    ELSE (IF process_sheet(excel_files[k].sheets[j], FileName(k), SheetName(j)) # NoTable
          THEN << <<k, j>> >> ELSE <<>>) \o YieldsFrom(k, j + 1)

Produced ==
    LET ys == YieldsFrom(1, 1)
    IN [i \in 1..Len(ys) |->
           process_sheet(excel_files[ys[i][1]].sheets[ys[i][2]],
                         FileName(ys[i][1]), SheetName(ys[i][2]))]

C9_RowOrder ==
    (pc = "done") =>
        LET tables == Produced
            total == TotalRows(tables)
        IN /\ error = ""
           /\ Len(final_df.rows) = total
           /\ final_df.index = [r \in 1..total |-> r - 1]
           /\ final_df.columns
                 = sorted(DataLabels(tables, {FileCol, SheetCol}))
                      \o <<FileCol, SheetCol>>
           /\ ValuesKept(tables, final_df, {})

\* two workbooks gave three tables, one of them with a row twice
C9_Witness ==
    /\ pc = "done"
    /\ Len(excel_files) = 2
    /\ Len(all_dataframes) = 3
    /\ Len(final_df.rows) >= 5
    /\ \E r \in 1..(Len(final_df.rows) - 1) : final_df.rows[r] = final_df.rows[r + 1]
    /\ CellOf(final_df, 1, FileCol) = Text(FileName(1))
    /\ CellOf(final_df, Len(final_df.rows), FileCol) = Text(FileName(2))

(***************************************************************************)
(* C10.  calculate_completeness_stats has one entry per data column of the *)
(* merged table; its count is the number of non-null cells the input       *)
(* tables hold under that label, its rate is count / rows * 100 and lies   *)
(* between 0 and 100; a label that is non-null in every row of every input *)
(* table has rate 100; a label of no input table is no column of the       *)
(* merged table and has no entry.  create_summary reports the same rates   *)
(* as text, rounded to the nearest tenth.                                  *)
(***************************************************************************)
RECURSIVE NonNullBefore(_, _, _)
NonNullBefore(tables, c, k) ==
    IF k <= 1 THEN 0
    ELSE NonNullBefore(tables, c, k - 1)
         + (IF HasLabel(tables[k - 1], c)
            THEN Cardinality({ r \in 1..Len(tables[k - 1].rows) :
                                 CellOf(tables[k - 1], r, c).k # "null" })
            ELSE 0)

NonNullIn(tables, c) == NonNullBefore(tables, c, Len(tables) + 1)

EverywhereFilled(tables, c) ==
    \A k \in 1..Len(tables) :
        /\ HasLabel(tables[k], c)
        /\ \A r \in 1..Len(tables[k].rows) : CellOf(tables[k], r, c).k # "null"

TenthsText(t) == <<ToString(t \div 10), ".", ToString(t % 10), "%">>

\* t tenths is a tenth nearest to count / total * 100
NearestTenth(t, count, total) ==
    /\ 2 * (t * total - count * 1000) <= total
    /\ 2 * (count * 1000 - t * total) <= total

C10_Completeness ==
    (pc \in {"create_summary", "merge_main", "merged"} /\ error = "") =>
        LET labels == DataLabels(all_dataframes, {FileCol, SheetCol})
            total == TotalRows(all_dataframes)
        IN /\ total >= 1
           /\ Len(completeness_stats) = Cardinality(labels)
           /\ { completeness_stats[i].column : i \in 1..Len(completeness_stats) }
                 = labels
           /\ { final_df.columns[j] : j \in 1..Len(final_df.columns) }
                 \subseteq labels \cup {FileCol, SheetCol}
           /\ \A i \in 1..Len(completeness_stats) :
                 LET e == completeness_stats[i]
                 IN /\ e.non_null_count = NonNullIn(all_dataframes, e.column)
                    /\ e.completeness_rate.num = e.non_null_count * 100
                    /\ e.completeness_rate.den = total
                    /\ 0 <= e.completeness_rate.num
                    /\ e.completeness_rate.num <= 100 * e.completeness_rate.den
                    /\ EverywhereFilled(all_dataframes, e.column)
                          => e.completeness_rate.num = 100 * e.completeness_rate.den
           /\ pc \in {"merge_main", "merged"} =>
                 /\ Len(summary) = Cardinality(labels)
                 /\ { summary[i].column : i \in 1..Len(summary) } = labels
                 /\ \A i \in 1..Len(summary) :
                       LET count == NonNullIn(all_dataframes, summary[i].column)
                       IN \E d \in 0..1 :
                             LET t == (count * 1000) \div total + d
                             IN /\ t <= 1000
                                /\ summary[i].rate = TenthsText(t)
                                /\ NearestTenth(t, count, total)
                                /\ EverywhereFilled(all_dataframes, summary[i].column)
                                      => t = 1000

\* a merge with a column of rate 100 and a column below 100
C10_Witness ==
    /\ pc = "merged"
    /\ error = ""
    /\ Len(all_dataframes) = 2
    /\ \E i, j \in 1..Len(completeness_stats) :
          /\ EverywhereFilled(all_dataframes, completeness_stats[i].column)
          /\ completeness_stats[i].completeness_rate.num
                = 100 * completeness_stats[i].completeness_rate.den
          /\ completeness_stats[j].non_null_count >= 1
          /\ completeness_stats[j].completeness_rate.num
                < 100 * completeness_stats[j].completeness_rate.den
    /\ \E i, j \in 1..Len(summary) :
          /\ summary[i].rate = <<"100", ".", "0", "%">>
          /\ summary[j].rate = <<"33", ".", "3", "%">>

(***************************************************************************)
(* C18.  The table clean_data returns has no row whose cells are all null, *)
(* no column whose cells are all null, no column and no row whose cells    *)
(* are all blank text, and its row labels are 0..n-1.  A table without     *)
(* rows or without columns satisfies the four conditions.                  *)
(***************************************************************************)
Cleaned(t) ==
    (NRows(t) >= 1 /\ NCols(t) >= 1) =>
        /\ \A r \in 1..NRows(t) : \E j \in 1..NCols(t) : t.rows[r][j].k # "null"
        /\ \A j \in 1..NCols(t) : \E r \in 1..NRows(t) : t.rows[r][j].k # "null"
        /\ \A j \in 1..NCols(t) :
              \E r \in 1..NRows(t) :
                 ~(t.rows[r][j].k = "text" /\ \A i \in 1..Len(t.rows[r][j].s) :
                                                   t.rows[r][j].s[i] = " ")
        /\ \A r \in 1..NRows(t) :
              \E j \in 1..NCols(t) :
                 ~(t.rows[r][j].k = "text" /\ \A i \in 1..Len(t.rows[r][j].s) :
                                                   t.rows[r][j].s[i] = " ")

C18_CleanPostcondition ==
    pc \in {"clean_again", "cleaned_twice"} =>
        /\ Cleaned(cleaned)
        /\ cleaned.index = [r \in 1..NRows(cleaned) |-> r - 1]

\* clean_data returned a table of two rows, one of them all null
C18_NullRowReturned ==
    /\ pc = "clean_again"
    /\ NRows(cleaned) = 2
    /\ NCols(cleaned) = 1
    /\ cleaned.rows[1][1].k = "null"
    /\ cleaned.rows[2][1].k = "text"

\* C18, the part about the row labels
C18_RowLabels ==
    pc \in {"clean_again", "cleaned_twice"} =>
        cleaned.index = [r \in 1..NRows(cleaned) |-> r - 1]

(***************************************************************************)
(* C11.  For a table without rows calculate_completeness_stats and         *)
(* create_summary report the completeness of every column as zero, and no  *)
(* division by zero is carried out.  (The code has no value that stands    *)
(* for "not applicable".)                                                  *)
(***************************************************************************)
C11_ZeroRows ==
    NRows(final_df) = 0 =>
        /\ pc \in {"create_summary", "merge_main"} =>
              \A i \in 1..Len(completeness_stats) :
                 /\ completeness_stats[i].completeness_rate.den # 0
                 /\ completeness_stats[i].completeness_rate.num = 0
        /\ pc = "merge_main" =>
              \A i \in 1..Len(summary) : summary[i].rate = <<"0", ".", "0", "%">>

\* the two functions were applied to a table of two data columns and no row
C11_ZeroRowsSummarised ==
    /\ pc = "merge_main"
    /\ NRows(final_df) = 0
    /\ Len(completeness_stats) = 2
    /\ Len(summary) = 2
    /\ summary[1].rate = <<"nan", "%">>

(***************************************************************************)
(* Runs of both programs seen from their end: what a run recorded for each *)
(* workbook and worksheet it was given.                                    *)
(***************************************************************************)
ExcelRunEnded == pc \in {"done", "raised"} /\ file_idx = Len(excel_files)
                    /\ excel_files # <<>>

MainRunEnded == pc \in {"save_results", "run_returned"}
                   /\ folder_idx = Len(target_folders) /\ target_folders # <<>>

\* the (folder, workbook) positions of a run of main.py
MainBooks == { p \in (1..MaxFolders + 1) \X (1..MaxFiles + 1) :
                  /\ p[1] <= Len(target_folders)
                  /\ p[2] <= Len(target_folders[p[1]]) }

\* every sheet_info that main.py recorded, whatever the list
MainRecorded ==
    Range(processing_details.processed_sheets)
        \cup Range(processing_details.skipped_sheets)
        \cup Range(processing_details.error_sheets)
        \cup Range(processing_details.empty_sheets)

MainInfoOf(f, k, j) ==
    { i \in MainRecorded : /\ i.folder_name = FolderName(f)
                           /\ i.file_name = FileName(k)
                           /\ i.sheet_name = SheetName(j) }

\* the file_stats excel.py kept for the workbook at k
ExcelStatsOf(k) ==
    { d \in Range(processing_stats.files_details) : d.file_name = FileName(k) }

ExcelDetailOf(k, j) ==
    { d \in UNION { Range(fs.sheet_details) : fs \in ExcelStatsOf(k) } :
         d.sheet_name = SheetName(j) }

(***************************************************************************)
(* C12.  A workbook that raises on reading gives no table and no row, is   *)
(* recorded by the run as an errored workbook, and the workbooks after it  *)
(* are processed; in excel.py and in main.py.                              *)
(***************************************************************************)
\* excel.py: the name is in error_files, no row carries it, and every
\* workbook that opens has its file_stats
C12_ExcelIsolation ==
    ExcelRunEnded =>
        /\ \A k \in 1..Len(excel_files) :
              ~excel_files[k].readable =>
                  /\ FileName(k) \in Range(processing_stats.error_files)
                  /\ \A i \in 1..Len(all_dataframes) :
                        CellOf(all_dataframes[i], 1, FileCol) # Text(FileName(k))
        /\ \A k \in 1..Len(excel_files) :
              excel_files[k].readable =>
                  /\ ExcelStatsOf(k) # {}
                  /\ \A j \in 1..Len(excel_files[k].sheets) : ExcelDetailOf(k, j) # {}

\* main.py: no table carries the workbook's name, and the workbooks that
\* open have a sheet_info for each worksheet
C12_MainIsolation ==
    MainRunEnded =>
        \A p \in MainBooks :
            LET book == target_folders[p[1]][p[2]]
            IN IF book.readable
               THEN \A j \in 1..Len(book.sheets) : MainInfoOf(p[1], p[2], j) # {}
               ELSE \A i \in 1..Len(all_data) :
                        \/ CellOf(all_data[i], 1, FileCol) # Text(FileName(p[2]))
                        \/ CellOf(all_data[i], 1, FolderCol) # Text(FolderName(p[1]))

\* main.py keeps a record of the errored workbook: no counter of
\* processing_summary counts it, so only a recorded sheet_info could name it
MainRecordsErroredBooks ==
    MainRunEnded =>
        \A p \in MainBooks :
            ~target_folders[p[1]][p[2]].readable =>
                \E i \in MainRecorded : /\ i.folder_name = FolderName(p[1])
                                        /\ i.file_name = FileName(p[2])
                                        /\ i.status = "error"

C12_WorkbookErrorIsolation ==
    C12_ExcelIsolation /\ C12_MainIsolation /\ MainRecordsErroredBooks

\* a run of main.py over a folder whose first workbook did not open and
\* whose second gave a table: nothing recorded names the first
C12_ErroredBookUnrecorded ==
    /\ MainRunEnded
    /\ Len(all_data) = 1
    /\ \E p \in MainBooks :
          /\ p[2] = 1
          /\ ~target_folders[p[1]][1].readable
          /\ Len(target_folders[p[1]]) = 2
          /\ \A i \in MainRecorded : i.file_name # FileName(1)
          /\ processing_summary.files_processed = 1

(***************************************************************************)
(* C13.  A worksheet with rows and without the marker in its first ten     *)
(* rows gives no table and is recorded as skipped for "marker not found";  *)
(* that reason is recorded for no other worksheet.                         *)
(***************************************************************************)
MarkerMissing(sheet) ==
    /\ sheet.readable
    /\ sheet.grid # <<>>
    /\ \A i \in 1..Min(10, Len(sheet.grid)) :
          \A j \in 1..Len(sheet.grid[i]) : ~CellHasMarker(sheet.grid[i][j])

C13_MainMarkerNotFound ==
    MainRunEnded =>
        \A p \in MainBooks :
            LET book == target_folders[p[1]][p[2]]
            IN \A j \in 1..Len(book.sheets) :
                  \A i \in MainInfoOf(p[1], p[2], j) :
                      (i.reason = "id_column_not_found")
                          <=> MarkerMissing(book.sheets[j])

C13_ExcelMarkerNotFound ==
    ExcelRunEnded =>
        \A k \in 1..Len(excel_files) :
            \A j \in 1..Len(excel_files[k].sheets) :
                \A d \in ExcelDetailOf(k, j) :
                    (d.message = "target_row_not_found")
                        <=> MarkerMissing(excel_files[k].sheets[j])

C13_MarkerNotFoundReason == C13_MainMarkerNotFound /\ C13_ExcelMarkerNotFound

\* excel.py logged "not found" for a worksheet whose marker row was found
\* and whose region was empty after cleaning
C13_FoundRecordedNotFound ==
    /\ ExcelRunEnded
    /\ \E k \in 1..Len(excel_files) :
          \E j \in 1..Len(excel_files[k].sheets) :
              LET sheet == excel_files[k].sheets[j]
              IN /\ sheet.readable
                 /\ sheet.grid # <<>>
                 /\ find_target_row(sheet.grid, DefaultTarget) # None
                 /\ \E d \in ExcelDetailOf(k, j) :
                       /\ d.message = "target_row_not_found"
                       /\ ~d.has_target

(***************************************************************************)
(* C14.  A worksheet whose reading raises is recorded with status "error"  *)
(* and the failure as its reason, no skip, and the worksheets and          *)
(* workbooks after it are processed.                                       *)
(***************************************************************************)
C14_MainSheetError ==
    MainRunEnded =>
        \A p \in MainBooks :
            LET book == target_folders[p[1]][p[2]]
            IN \A j \in 1..Len(book.sheets) :
                  /\ MainInfoOf(p[1], p[2], j) # {}
                  /\ \A i \in MainInfoOf(p[1], p[2], j) :
                        /\ (i.status = "error") <=> ~book.sheets[j].readable
                        /\ (i.status = "error") => i.reason = "read_excel_raised"

\* excel.py: the sheet_detail of a worksheet that raised tells it from a
\* worksheet that was skipped
ExcelDetailTellsError(d) == d.message \notin {"target_found", "target_row_not_found"}

C14_ExcelSheetError ==
    ExcelRunEnded =>
        \A k \in 1..Len(excel_files) :
            \A j \in 1..Len(excel_files[k].sheets) :
                /\ ExcelDetailOf(k, j) # {}
                /\ \A d \in ExcelDetailOf(k, j) :
                      ExcelDetailTellsError(d) <=> ~excel_files[k].sheets[j].readable

C14_SheetErrorRecorded == C14_MainSheetError /\ C14_ExcelSheetError

\* excel.py counted a worksheet that raised among the skipped ones, and
\* processed the worksheet after it
C14_SheetErrorCountedSkipped ==
    /\ ExcelRunEnded
    /\ \E k \in 1..Len(excel_files) :
          /\ Len(excel_files[k].sheets) >= 2
          /\ ~excel_files[k].sheets[1].readable
          /\ \E fs \in ExcelStatsOf(k) :
                /\ fs.sheets_skipped >= 1
                /\ fs.sheet_details[1].message = "target_row_not_found"
                /\ fs.sheet_details[2].message = "target_found"

(***************************************************************************)
(* C15.  A run ends with an error if and only if it was given no workbook  *)
(* or no worksheet of any workbook gave a table; errored workbooks and     *)
(* errored or skipped worksheets do not fail a run that has a table.       *)
(***************************************************************************)
C15_ExcelRunFails ==
    (pc \in {"done", "raised"}) =>
        ((error # "") <=> (excel_files = <<>> \/ all_dataframes = <<>>))

\* main.py ends in error when process_folders returns False or when run()
\* catches an exception; a write that fails is not counted here
MainRunFailed == process_folders_returned = "False" \/ main_error # ""

C15_MainRunFails ==
    (pc = "run_returned") =>
        (MainRunFailed <=> (MainBooks = {} \/ all_data = <<>>))

C15_RunFailure == C15_ExcelRunFails /\ C15_MainRunFails

\* main.py ended in error with a table in hand, beside a workbook that did
\* not open or alone
C15_FailedWithTables ==
    /\ pc = "run_returned"
    /\ main_error = "ValueError"
    /\ process_folders_returned = "True"
    /\ Len(all_data) >= 1
    /\ written_main = NoTable

(***************************************************************************)
(* C16.  The column names of every table added to the list of tables, by   *)
(* excel.py and by main.py, are non-empty text and pairwise distinct       *)
(* within the table, whatever the marker row holds.                        *)
(***************************************************************************)
NamesWellFormed(tables) ==
    /\ DistinctLabels(tables)
    /\ \A k \in 1..Len(tables) :
          \A j \in 1..Len(tables[k].columns) : tables[k].columns[j] # <<>>

C16_ExcelColumnNames == NamesWellFormed(all_dataframes)

C16_MainColumnNames == NamesWellFormed(all_data)

C16_ColumnNames == C16_ExcelColumnNames /\ C16_MainColumnNames

\* main.py added a table with the label 未命名列 on two columns
C16_TwoUnnamedColumns ==
    /\ MainRunEnded
    /\ \E k \in 1..Len(all_data) :
          \E i, j \in 1..Len(all_data[k].columns) :
              /\ i < j
              /\ all_data[k].columns[i] = UnnamedColumn
              /\ all_data[k].columns[j] = UnnamedColumn

(***************************************************************************)
(* C17.  A save that fails is reported to the caller, who can tell it from *)
(* a save that worked, and the merged table in memory is as it was; for    *)
(* save_excel under main() and for save_results.                           *)
(***************************************************************************)
\* save_excel returns None after a write that worked
ExcelSaveWorked == "None"

C17_ExcelSave ==
    (pc = "main_returned" /\ save_excel_returned # "none") =>
        /\ (written = NoTable) => save_excel_returned # ExcelSaveWorked
        /\ final_df = concat(unify_columns(all_dataframes))

\* save_results returns True after a write that worked
MainSaveWorked == "True"

C17_MainSave ==
    (pc = "run_returned" /\ save_results_returned # "none") =>
        /\ (written_main = NoTable) => save_results_returned # MainSaveWorked
        /\ merged_df = merge_all_data(all_data)

C17_SaveFailureReported == C17_ExcelSave /\ C17_MainSave

\* save_excel was called, wrote nothing, and returned what it returns
\* after a write
C17_FailedSaveUnreported ==
    /\ pc = "main_returned"
    /\ save_excel_returned = "None"
    /\ written = NoTable
    /\ NRows(final_df) >= 2

(***************************************************************************)
(* C19.  Every table added to the list of tables has a row or more and a   *)
(* data column or more; a region without rows or without data columns      *)
(* after cleaning is skipped, a header label that is a provenance label    *)
(* included.                                                               *)
(***************************************************************************)
HasDataColumn(t, prov) == \E j \in 1..Len(t.columns) : t.columns[j] \notin prov

C19_ExcelTables ==
    \A k \in 1..Len(all_dataframes) :
        /\ NRows(all_dataframes[k]) >= 1
        /\ HasDataColumn(all_dataframes[k], Range(ExcelProvenance))

C19_MainTables ==
    \A k \in 1..Len(all_data) :
        /\ NRows(all_data[k]) >= 1
        /\ HasDataColumn(all_data[k], MainProvenance)

C19_TablesHaveData == C19_ExcelTables /\ C19_MainTables

\* excel.py added a table that has the two provenance columns only
C19_ProvenanceOnly ==
    /\ ExcelRunEnded
    /\ \E k \in 1..Len(all_dataframes) :
          /\ all_dataframes[k].columns = ExcelProvenance
          /\ NRows(all_dataframes[k]) = 1

\* main.py added a table that has the three provenance columns only
C19_MainProvenanceOnly ==
    /\ MainRunEnded
    /\ \E k \in 1..Len(all_data) :
          /\ Range(all_data[k].columns) = MainProvenance
          /\ NRows(all_data[k]) = 1

(***************************************************************************)
(* C20.  The rows of the table of a worksheet whose marker is in row r are *)
(* rows of the grid below r, in the order of the grid; the marker row and  *)
(* the rows above it are no data rows.                                     *)
(***************************************************************************)
\* the members of a set of numbers, ascending
RECURSIVE AscendingSeq(_)
AscendingSeq(S) ==
    IF S = {} THEN <<>>
    ELSE LET m == CHOOSE x \in S : \A y \in S : x <= y
         IN <<m>> \o AscendingSeq(S \ {m})

\* positions of the data columns of t
DataPositions(t, prov) == { j \in 1..Len(t.columns) : t.columns[j] \notin prov }

\* the data columns of t are columns of the grid, and its rows are rows of
\* the grid below row r (counted from 0), both in the order of the grid
DrawnBelow(t, grid, r, prov) ==
    LET ds == AscendingSeq(DataPositions(t, prov))
    IN \E R \in SUBSET ((r + 2)..Len(grid)) :
          /\ Cardinality(R) = NRows(t)
          /\ \E C \in SUBSET (1..Len(grid[r + 1])) :
                /\ Cardinality(C) = Len(ds)
                /\ LET rs == AscendingSeq(R)
                       cs == AscendingSeq(C)
                   IN \A i \in 1..Len(rs) :
                          \A m \in 1..Len(cs) :
                              t.rows[i][ds[m]] = grid[rs[i]][cs[m]]

C20_ExcelDataRegion ==
    ExcelRunEnded =>
        \A k \in 1..Len(excel_files) :
            \A j \in 1..Len(excel_files[k].sheets) :
                LET sheet == excel_files[k].sheets[j]
                    found == { i \in 1..Len(all_dataframes) :
                                  /\ CellOf(all_dataframes[i], 1, FileCol) = Text(FileName(k))
                                  /\ CellOf(all_dataframes[i], 1, SheetCol) = Text(SheetName(j)) }
                IN \A i \in found :
                      /\ sheet.readable
                      /\ find_target_row(sheet.grid, DefaultTarget) # None
                      /\ DrawnBelow(all_dataframes[i], sheet.grid,
                                    find_target_row(sheet.grid, DefaultTarget),
                                    Range(ExcelProvenance))

C20_MainDataRegion ==
    MainRunEnded =>
        \A p \in MainBooks :
            \A j \in 1..Len(target_folders[p[1]][p[2]].sheets) :
                LET sheet == target_folders[p[1]][p[2]].sheets[j]
                    found == { i \in 1..Len(all_data) :
                                  /\ CellOf(all_data[i], 1, FileCol) = Text(FileName(p[2]))
                                  /\ CellOf(all_data[i], 1, SheetCol) = Text(SheetName(j))
                                  /\ CellOf(all_data[i], 1, FolderCol) = Text(FolderName(p[1])) }
                IN \A i \in found :
                      /\ sheet.readable
                      /\ find_id_column_row(sheet.grid) # None
                      /\ DrawnBelow(all_data[i], sheet.grid,
                                    find_id_column_row(sheet.grid), MainProvenance)

C20_DataRegion == C20_ExcelDataRegion /\ C20_MainDataRegion

\* main.py took the two rows around a null row from a worksheet whose
\* marker is in its second row
C20_Witness ==
    /\ MainRunEnded
    /\ \E p \in MainBooks :
          \E j \in 1..Len(target_folders[p[1]][p[2]].sheets) :
              /\ target_folders[p[1]][p[2]].sheets[j] = SheetTitled
              /\ \E i \in 1..Len(all_data) :
                    /\ CellOf(all_data[i], 1, FolderCol) = Text(FolderName(p[1]))
                    /\ CellOf(all_data[i], 1, SheetCol) = Text(SheetName(j))
                    /\ NRows(all_data[i]) = 2
                    /\ CellOf(all_data[i], 1, <<"B">>) = Num(3)
                    /\ CellOf(all_data[i], 2, <<"B">>) = Num(4)

(***************************************************************************)
(* C21.  Every row of a tagged table carries the provenance of the         *)
(* worksheet the table was extracted from (file and worksheet name, and    *)
(* folder name in main.py), and every row of the merged table carries,     *)
(* non-null, the provenance of the table the row came from.                *)
(***************************************************************************)
\* a worksheet of main.py that yields a table
MainSheetYields(sheet) ==
    /\ sheet.readable
    /\ sheet.grid # <<>>
    /\ find_id_column_row(sheet.grid) # None
    /\ LET r == find_id_column_row(sheet.grid)
       IN ~empty(clean_dataframe(RowsBelow(sheet.grid, r,
                                           new_columns(sheet.grid[r + 1]))))

\* the (folder, workbook, worksheet) positions that yield a table, in order
RECURSIVE MainYieldsFrom(_, _, _)
MainYieldsFrom(f, k, j) ==
    IF f > Len(target_folders) THEN <<>>
    ELSE IF k > Len(target_folders[f]) THEN MainYieldsFrom(f + 1, 1, 1)
    ELSE IF ~target_folders[f][k].readable \/ j > Len(target_folders[f][k].sheets)
    THEN MainYieldsFrom(f, k + 1, 1)
    ELSE (IF MainSheetYields(target_folders[f][k].sheets[j])
          THEN << <<f, k, j>> >> ELSE <<>>) \o MainYieldsFrom(f, k, j + 1)

\* every row of t has the text names[c] under each label c of names
ConstantProvenance(t, names) ==
    \A c \in DOMAIN names :
        /\ HasLabel(t, c)
        /\ \A r \in 1..NRows(t) : CellOf(t, r, c) = Text(names[c])

\* the rows of merged carry the provenance cells of the rows of tables
ProvenanceKept(tables, merged, prov) ==
    /\ NRows(merged) = TotalRows(tables)
    /\ \A k \in 1..Len(tables) :
          \A r \in 1..NRows(tables[k]) :
              \A c \in prov :
                  /\ HasLabel(merged, c)
                  /\ CellOf(merged, RowsBefore(tables, k) + r, c) # NULL
                  /\ CellOf(merged, RowsBefore(tables, k) + r, c)
                        = CellOf(tables[k], r, c)

C21_Provenance ==
    /\ ExcelRunEnded =>
          LET ys == YieldsFrom(1, 1)
          IN /\ Len(all_dataframes) = Len(ys)
             /\ \A i \in 1..Len(ys) :
                   ConstantProvenance(all_dataframes[i],
                       (FileCol :> FileName(ys[i][1]))
                           @@ (SheetCol :> SheetName(ys[i][2])))
    /\ (pc \in {"done", "main_returned"}) =>
          ProvenanceKept(all_dataframes, final_df, {FileCol, SheetCol})
    /\ MainRunEnded =>
          LET ys == MainYieldsFrom(1, 1, 1)
          IN /\ Len(all_data) = Len(ys)
             /\ \A i \in 1..Len(ys) :
                   ConstantProvenance(all_data[i],
                       (FileCol :> FileName(ys[i][2]))
                           @@ (SheetCol :> SheetName(ys[i][3]))
                           @@ (FolderCol :> FolderName(ys[i][1])))
    /\ (pc = "run_returned" /\ save_results_returned # "none" /\ all_data # <<>>) =>
          ProvenanceKept(all_data, merged_df, MainProvenance)

\* main.py merged a table of two rows of one folder with a table of
\* another folder
C21_Witness ==
    /\ pc = "run_returned"
    /\ save_results_returned = "True"
    /\ Len(all_data) = 2
    /\ NRows(all_data[1]) = 2
    /\ NRows(merged_df) >= 3
    /\ CellOf(merged_df, 2, FolderCol) = Text(FolderName(1))
    /\ CellOf(merged_df, NRows(merged_df), FolderCol) = Text(FolderName(2))
    /\ written_main = merged_df

(***************************************************************************)
(* C22.  The keys of column_sources are the data columns of the unified    *)
(* schema, no provenance label among them, and the set recorded for a data *)
(* column is the set of (file name, worksheet name) pairs of the input     *)
(* tables that have a row and have the column.                             *)
(***************************************************************************)
SourcesOf(tables, ys, c) ==
    { <<Text(FileName(ys[i][1])), Text(SheetName(ys[i][2]))>> :
         i \in { n \in 1..Len(tables) : NRows(tables[n]) >= 1 /\ HasLabel(tables[n], c) } }

C22_ColumnSources ==
    (pc \in {"done", "main_returned"}) =>
        LET ys == YieldsFrom(1, 1)
        IN /\ Len(ys) = Len(all_dataframes)
           /\ DOMAIN column_sources
                 = Range(final_df.columns) \ {FileCol, SheetCol}
           /\ DOMAIN column_sources = DataLabels(all_dataframes, {FileCol, SheetCol})
           /\ \A c \in DOMAIN column_sources :
                 column_sources[c] = SourcesOf(all_dataframes, ys, c)

\* three tables of two workbooks: a column of all three, a column of two
\* worksheets of one workbook, and a column of one table
C22_Witness ==
    /\ pc = "done"
    /\ Len(excel_files) = 2
    /\ Len(all_dataframes) = 3
    /\ column_sources[DefaultTarget]
          = { <<Text(FileName(1)), Text(SheetName(1))>>,
              <<Text(FileName(1)), Text(SheetName(2))>>,
              <<Text(FileName(2)), Text(SheetName(1))>> }
    /\ <<"A">> \in DOMAIN column_sources
    /\ column_sources[<<"A">>]
          = { <<Text(FileName(1)), Text(SheetName(1))>>,
              <<Text(FileName(1)), Text(SheetName(2))>> }
    /\ <<"B">> \in DOMAIN column_sources
    /\ Cardinality(column_sources[<<"B">>]) = 1

(***************************************************************************)
(* C23.  Every worksheet of every workbook that opens ends in one outcome  *)
(* and is recorded once, and the counter of scanned worksheets is the sum  *)
(* of the extracted, skipped and errored ones: total_sheets =              *)
(* processed_sheets + skipped_sheets in excel.py, sheets_processed = the   *)
(* length of the four lists of processing_details together in main.py.     *)
(***************************************************************************)
\* the worksheets of the workbooks of a sequence that open
RECURSIVE SheetsOfReadable(_, _)
SheetsOfReadable(books, n) ==
    IF n = 0 THEN 0
    ELSE SheetsOfReadable(books, n - 1)
            + (IF books[n].readable THEN Len(books[n].sheets) ELSE 0)

RECURSIVE MainSheetsUpTo(_)
MainSheetsUpTo(f) ==
    IF f = 0 THEN 0
    ELSE MainSheetsUpTo(f - 1)
            + SheetsOfReadable(target_folders[f], Len(target_folders[f]))

\* the sheet_info records of main.py, all four lists together
MainRecordedCount ==
    Len(processing_details.processed_sheets)
        + Len(processing_details.skipped_sheets)
        + Len(processing_details.empty_sheets)
        + Len(processing_details.error_sheets)

C23_ExcelPartition ==
    ExcelRunEnded =>
        /\ processing_stats.total_sheets
              = processing_stats.processed_sheets + processing_stats.skipped_sheets
        /\ processing_stats.total_sheets
              = SheetsOfReadable(excel_files, Len(excel_files))
        /\ processing_stats.processed_sheets = Len(all_dataframes)
        /\ \A k \in 1..Len(excel_files) :
              excel_files[k].readable =>
                  \A fs \in ExcelStatsOf(k) :
                      /\ Len(fs.sheet_details) = Len(excel_files[k].sheets)
                      /\ \A j \in 1..Len(fs.sheet_details) :
                            fs.sheet_details[j].sheet_name = SheetName(j)

C23_MainRecordedOnce ==
    MainRunEnded =>
        /\ MainRecordedCount = MainSheetsUpTo(Len(target_folders))
        /\ \A p \in MainBooks :
              target_folders[p[1]][p[2]].readable =>
                  \A j \in 1..Len(target_folders[p[1]][p[2]].sheets) :
                      Cardinality(MainInfoOf(p[1], p[2], j)) = 1

C23_MainCounter ==
    MainRunEnded => processing_summary.sheets_processed = MainRecordedCount

C23_OutcomesPartition ==
    C23_ExcelPartition /\ C23_MainRecordedOnce /\ C23_MainCounter

\* main.py recorded an empty worksheet and a worksheet that raised, and
\* counted neither in sheets_processed
C23_EmptyAndErrorUncounted ==
    /\ MainRunEnded
    /\ Len(processing_details.empty_sheets) = 1
    /\ Len(processing_details.error_sheets) = 1
    /\ processing_summary.sheets_processed
          = Len(processing_details.processed_sheets)
               + Len(processing_details.skipped_sheets)
    /\ processing_summary.sheets_processed = MainRecordedCount - 2

(***************************************************************************)
(* C24.  Workbooks are handled one at a time in discovery order, each      *)
(* once, and the worksheets of a workbook in worksheet order, each once;   *)
(* a workbook or worksheet that failed is recorded once and not taken up   *)
(* again; after the last workbook the run reaches its end, the merge or    *)
(* the error.                                                              *)
(***************************************************************************)
IsPrefixOf(old, new) == Len(old) <= Len(new) /\ SubSeq(new, 1, Len(old)) = old

\* a step of excel.py handles no workbook, or the next one and records it
\* once, its worksheets in order; what was recorded before stays
ExcelStep ==
    /\ file_idx' \in {file_idx, file_idx + 1}
    /\ (file_idx' = file_idx /\ pc # "get_excel_files") =>
          /\ processing_stats' = processing_stats
          /\ all_dataframes' = all_dataframes
    /\ (file_idx' = file_idx + 1) =>
          /\ file_idx < Len(excel_files)
          /\ IsPrefixOf(all_dataframes, all_dataframes')
          /\ IF excel_files[file_idx + 1].readable
             THEN /\ processing_stats'.error_files = processing_stats.error_files
                  /\ Len(processing_stats'.files_details)
                        = Len(processing_stats.files_details) + 1
                  /\ IsPrefixOf(processing_stats.files_details,
                                processing_stats'.files_details)
                  /\ LET fs == processing_stats'.files_details[
                                   Len(processing_stats'.files_details)]
                     IN /\ fs.file_name = FileName(file_idx + 1)
                        /\ Len(fs.sheet_details)
                              = Len(excel_files[file_idx + 1].sheets)
                        /\ \A j \in 1..Len(fs.sheet_details) :
                              fs.sheet_details[j].sheet_name = SheetName(j)
                        /\ fs.sheets_processed + fs.sheets_skipped
                              = Len(excel_files[file_idx + 1].sheets)
             ELSE /\ processing_stats'.files_details = processing_stats.files_details
                  /\ processing_stats'.error_files
                        = Append(processing_stats.error_files, FileName(file_idx + 1))
                  /\ all_dataframes' = all_dataframes

\* a step of main.py handles no folder, or the next one and records each
\* worksheet of its workbooks once; what was recorded before stays
MainStep ==
    /\ folder_idx' \in {folder_idx, folder_idx + 1}
    /\ (folder_idx' = folder_idx) =>
          /\ processing_details' = processing_details
          /\ processing_summary' = processing_summary
          /\ all_data' = all_data
    /\ (folder_idx' = folder_idx + 1) =>
          /\ folder_idx < Len(target_folders)
          /\ IsPrefixOf(all_data, all_data')
          /\ IsPrefixOf(processing_details.processed_sheets,
                        processing_details'.processed_sheets)
          /\ IsPrefixOf(processing_details.skipped_sheets,
                        processing_details'.skipped_sheets)
          /\ IsPrefixOf(processing_details.empty_sheets,
                        processing_details'.empty_sheets)
          /\ IsPrefixOf(processing_details.error_sheets,
                        processing_details'.error_sheets)
          /\ MainRecordedCount'
                = MainRecordedCount
                     + SheetsOfReadable(target_folders[folder_idx + 1],
                                        Len(target_folders[folder_idx + 1]))
          /\ \A i \in MainRecorded' \ MainRecorded :
                i.folder_name = FolderName(folder_idx + 1)

\* at the end every workbook that opens has its worksheets recorded once,
\* and the tables stand in the order of their worksheets
HandledOnce ==
    /\ ExcelRunEnded =>
          /\ Len(processing_stats.error_files) + Len(processing_stats.files_details)
                = Len(excel_files)
          /\ \A k \in 1..Len(excel_files) :
                IF excel_files[k].readable
                THEN Cardinality({ i \in 1..Len(processing_stats.files_details) :
                        processing_stats.files_details[i].file_name = FileName(k) }) = 1
                ELSE Cardinality({ i \in 1..Len(processing_stats.error_files) :
                        processing_stats.error_files[i] = FileName(k) }) = 1
    /\ MainRunEnded =>
          LET ys == MainYieldsFrom(1, 1, 1)
          IN /\ MainRecordedCount = MainSheetsUpTo(Len(target_folders))
             /\ Len(processing_details.processed_sheets) = Len(ys)
             /\ \A i \in 1..Len(ys) :
                   /\ processing_details.processed_sheets[i].folder_name
                         = FolderName(ys[i][1])
                   /\ processing_details.processed_sheets[i].file_name
                         = FileName(ys[i][2])
                   /\ processing_details.processed_sheets[i].sheet_name
                         = SheetName(ys[i][3])

\* the end of a run: the merge or the error of excel.py, the return of
\* process_folders in main.py
RunEnd == pc \in {"done", "raised", "save_results", "run_returned"}

BookYields(k) ==
    /\ excel_files[k].readable
    /\ \E j \in 1..Len(excel_files[k].sheets) :
          process_sheet(excel_files[k].sheets[j], FileName(k), SheetName(j)) # NoTable

C25_FileCounters ==
    (pc \in {"process_file", "done", "raised", "main_returned"} /\ excel_files # <<>>) =>
        /\ processing_stats.processed_files + processing_stats.skipped_files = file_idx
        /\ processing_stats.processed_files
              = Cardinality({ k \in 1..file_idx : BookYields(k) })
        /\ processing_stats.skipped_files
              = Cardinality({ k \in 1..file_idx : ~BookYields(k) })
        /\ Len(processing_stats.error_files)
              = Cardinality({ k \in 1..file_idx : ~excel_files[k].readable })
        /\ Len(processing_stats.error_files) <= processing_stats.skipped_files
        /\ processing_stats.total_files = Len(excel_files)
        /\ (pc # "process_file") =>
              processing_stats.processed_files + processing_stats.skipped_files
                 = processing_stats.total_files

\* one workbook did not open and the other gave a table beside a worksheet
\* that was skipped
C25_Witness ==
    /\ pc = "done"
    /\ Len(excel_files) = 2
    /\ processing_stats.processed_files = 1
    /\ processing_stats.skipped_files = 1
    /\ Len(processing_stats.error_files) = 1
    /\ processing_stats.files_details[1].sheets_skipped >= 1

\* a workbook that opened and gave no table is counted as skipped beside
\* one that did not open
C25_SkippedWithoutError ==
    /\ pc = "raised"
    /\ Len(excel_files) = 2
    /\ processing_stats.skipped_files = 2
    /\ Len(processing_stats.error_files) = 1
    /\ Len(processing_stats.files_details) = 1

(***************************************************************************)
(* C26.  At the end of a run that succeeded, the statistic of extracted    *)
(* rows is the number of rows of the merged table and the sum of the row   *)
(* counts recorded for the extracted worksheets: total_rows and the        *)
(* total_data_rows of files_details in excel.py, total_rows of             *)
(* processing_summary and the processed_rows in main.py.                   *)
(***************************************************************************)
\* the sum of the numbers of a sequence
SumSeq(ns) == Sum(ns, Len(ns))

RecordedDataRows ==
    SumSeq([i \in 1..Len(processing_stats.files_details) |->
               processing_stats.files_details[i].total_data_rows])

RecordedSheetRows ==
    SumSeq([i \in 1..Len(processing_stats.files_details) |->
               SumSeq([j \in 1..Len(processing_stats.files_details[i].sheet_details) |->
                          processing_stats.files_details[i].sheet_details[j].data_rows])])

RecordedProcessedRows ==
    SumSeq([i \in 1..Len(processing_details.processed_sheets) |->
               processing_details.processed_sheets[i].processed_rows])

C26_RowCounts ==
    /\ (pc \in {"done", "main_returned"}) =>
          /\ total_rows = NRows(final_df)
          /\ total_rows = RecordedDataRows
          /\ total_rows = RecordedSheetRows
          /\ total_rows = TotalRows(all_dataframes)
    /\ (pc = "run_returned" /\ save_results_returned = "True") =>
          /\ processing_summary.total_rows = NRows(merged_df)
          /\ processing_summary.total_rows = NRows(written_main)
          /\ processing_summary.total_rows = RecordedProcessedRows
    /\ MainRunEnded =>
          /\ processing_summary.total_rows = RecordedProcessedRows
          /\ processing_summary.total_rows = TotalRows(all_data)

\* excel.py merged three tables of two workbooks, a row twice among them,
\* into five rows or more
C26_Witness ==
    /\ pc = "done"
    /\ Len(processing_stats.files_details) = 2
    /\ Len(all_dataframes) = 3
    /\ total_rows >= 5
    /\ \E r \in 1..(NRows(final_df) - 1) : final_df.rows[r] = final_df.rows[r + 1]
    /\ processing_stats.files_details[1].total_data_rows >= 2
    /\ processing_stats.files_details[2].total_data_rows >= 2

\* main.py wrote the merged table of two folders
C26_MainWitness ==
    /\ pc = "run_returned"
    /\ save_results_returned = "True"
    /\ Len(processing_details.processed_sheets) = 2
    /\ processing_summary.total_rows = 4
    /\ NRows(written_main) = 4

=============================================================================
